---------------------------- MODULE Spec2Model ----------------------------
(***************************************************************************)
(* PyMermaidView: the flowchart builder (FlowchartNode, FlowchartConnection, *)
(* SubgraphContainer, FlowchartBuilder), its parser (FlowchartParser), the  *)
(* validator (FlowchartValidator) and the image generator                   *)
(* (MermaidGenerator with its renderers), modelled as state machines.       *)
(*                                                                         *)
(* A Python str is a sequence of one-character strings, so that formatting, *)
(* splitting, stripping and the regular expressions of the source are       *)
(* computed character by character.  An Optional value is None (the empty   *)
(* tuple) or Some(x) (the one-element tuple).  A dict is the sequence of    *)
(* its (key, value) entries in insertion order.                             *)
(***************************************************************************)
EXTENDS Integers, Sequences, FiniteSets, TLC

VARIABLES
    builder,    \* the FlowchartBuilder under construction
    heap,       \* the SubgraphContainer objects, by reference (index)
    validator,  \* the FlowchartValidator instance: errors, warnings
    parsed,     \* what parse_string returned: current_builder, or the exception
    node,       \* a standalone FlowchartNode (as the unit tests build one)
    arg,        \* the input of the most recent call, where it is a plain value
    ret,        \* the value the most recent call returned
    prev,       \* the state before the most recent call, as far as it is read:
                \* the document of the build() directly before a build(), the
                \* node map before add_node, the lists before a validate call,
                \* the document parsed before the parsed builder is built
    lastOp,     \* the name of the most recent call
    calls,      \* the number of mutator calls made so far
    generator,  \* the MermaidGenerator: renderer, config, _generation_history
    disk        \* the directories made and the files written

vars == <<builder, heap, validator, parsed, node, arg, ret, prev, lastOp, calls,
          generator, disk>>

----------------------------------------------------------------------------
(* Bounds of the model *)

MaxIdLen == 4
MaxCalls == 4

\* connections of a builder whose document is parsed back
MaxConnections == 1

\* lines after the first of a document that is validated
MaxBodyLines == 2

\* lines of a text handed to FlowchartParser.parse_string
MaxParseLines == 2

\* the largest stroke width of a NodeStyle handed to to_css
MaxWidth == 2

\* generate calls on one MermaidGenerator
MaxGenerations == 2

\* keyword arguments of one set_config call
MaxKwargs == 2

----------------------------------------------------------------------------
(* Python values *)

None == <<>>
Some(x) == <<x>>

\* bool(o) for an Optional[str]: None and "" are false
Truthy(o) == o # None /\ o[1] # <<>>

Lower == {"a", "b", "c", "d", "e", "f", "g", "h", "i", "j", "k", "l", "m",
          "n", "o", "p", "q", "r", "s", "t", "u", "v", "w", "x", "y", "z"}
Upper == {"A", "B", "C", "D", "E", "F", "G", "H", "I", "J", "K", "L", "M",
          "N", "O", "P", "Q", "R", "S", "T", "U", "V", "W", "X", "Y", "Z"}
Digits == {"0", "1", "2", "3", "4", "5", "6", "7", "8", "9"}

\* str.isalpha() of one character; the one non-ASCII letter of the model is U+00E9 (e-acute), written as a token
IsAlpha(c) == c \in Lower \cup Upper \cup {"U+00E9"}

\* the class [a-zA-Z0-9_] of the regular expressions
IdChars == Lower \cup Upper \cup Digits \cup {"_"}

\* the class \w: [a-zA-Z0-9_] and the non-ASCII letters
WordChars == IdChars \cup {"U+00E9"}

\* the characters str.strip() removes
Whitespace == {" ", "\t", "\n", "\r"}

RECURSIVE LStrip(_)
LStrip(s) == IF s # <<>> /\ Head(s) \in Whitespace THEN LStrip(Tail(s)) ELSE s

RECURSIVE RStrip(_)
RStrip(s) ==
    IF s # <<>> /\ s[Len(s)] \in Whitespace
    THEN RStrip(SubSeq(s, 1, Len(s) - 1))
    ELSE s

\* str.strip()
Strip(s) == RStrip(LStrip(s))

\* s[i:i+len(p)] == p
MatchAt(s, p, i) == i + Len(p) - 1 <= Len(s) /\ SubSeq(s, i, i + Len(p) - 1) = p

\* str.startswith
StartsWith(s, p) == MatchAt(s, p, 1)

\* p in s
Contains(s, p) == \E i \in 1..(Len(s) - Len(p) + 1) : MatchAt(s, p, i)

\* str.find, one-based; 0 when p does not occur
Find(s, p) ==
    IF Contains(s, p)
    THEN CHOOSE i \in 1..(Len(s) - Len(p) + 1) :
            /\ MatchAt(s, p, i)
            /\ \A j \in 1..(i - 1) : ~MatchAt(s, p, j)
    ELSE 0

\* s[i:], one-based
From(s, i) == SubSeq(s, i, Len(s))

\* str.split(sep) for a non-empty separator
RECURSIVE Split(_, _)
Split(s, sep) ==
    LET i == Find(s, sep)
    IN  IF i = 0
        THEN <<s>>
        ELSE <<SubSeq(s, 1, i - 1)>> \o Split(From(s, i + Len(sep)), sep)

\* str.count(p): the non-overlapping occurrences
Count(s, p) == Len(Split(s, p)) - 1

\* sep.join(parts)
RECURSIVE Join(_, _)
Join(parts, sep) ==
    IF parts = <<>> THEN <<>>
    ELSE IF Len(parts) = 1 THEN parts[1]
    ELSE parts[1] \o sep \o Join(Tail(parts), sep)

\* the strings over an alphabet, of length at most n
StringsUpTo(alphabet, n) == UNION {[1..k -> alphabet] : k \in 0..n}

----------------------------------------------------------------------------
(* Enumerations *)

NodeShape == {"RECTANGLE", "ROUND_RECT", "STADIUM", "SUBROUTINE", "CYLINDER",
              "CIRCLE", "ASYMMETRIC", "RHOMBUS", "HEXAGON", "PARALLELOGRAM",
              "PARALLELOGRAM_ALT", "TRAPEZOID", "TRAPEZOID_ALT"}

\* ArrowType in definition order, which is the order iteration visits
ArrowType == <<"ARROW", "OPEN", "DOTTED_ARROW", "DOTTED_OPEN", "THICK_ARROW",
               "THICK_OPEN", "INVISIBLE">>

\* ArrowType.value
ArrowValue(t) ==
    CASE t = "ARROW"        -> <<"-", "-", ">">>
      [] t = "OPEN"         -> <<"-", "-", "-">>
      [] t = "DOTTED_ARROW" -> <<"-", ".", "-", ">">>
      [] t = "DOTTED_OPEN"  -> <<"-", ".", "-">>
      [] t = "THICK_ARROW"  -> <<"=", "=", ">">>
      [] t = "THICK_OPEN"   -> <<"=", "=", "=">>
      [] t = "INVISIBLE"    -> <<"~", "~", "~">>

\* Direction.value: the four codes (TOP_DOWN is an alias of TOP_BOTTOM)
Direction == {<<"T", "D">>, <<"B", "T">>, <<"R", "L">>, <<"L", "R">>}

----------------------------------------------------------------------------
(* FlowchartNode *)

\* FlowchartNode._sanitize_id without the 'node_' prefix step
SanitizeIdNoPrefix(node_id) ==
    LET sanitized == [i \in 1..Len(node_id) |->
                        IF node_id[i] \in IdChars THEN node_id[i] ELSE "_"]
    IN  IF sanitized = <<>> THEN <<"n", "o", "d", "e">> ELSE sanitized

\* FlowchartNode._sanitize_id
SanitizeId(node_id) ==
    LET sanitized == [i \in 1..Len(node_id) |->
                        IF node_id[i] \in IdChars THEN node_id[i] ELSE "_"]
        prefixed  == IF /\ sanitized # <<>>
                        /\ ~IsAlpha(sanitized[1])
                        /\ sanitized[1] # "_"
                     THEN <<"n", "o", "d", "e", "_">> \o sanitized
                     ELSE sanitized
    IN  IF prefixed = <<>> THEN <<"n", "o", "d", "e">> ELSE prefixed

\* FlowchartNode.__init__ that keeps the id it was given
FlowchartNodeRawId(node_id, label, shape) ==
    [node_id      |-> node_id,
     label        |-> label,
     shape        |-> shape,
     style        |-> None,
     css_class    |-> None,
     click_action |-> None,
     href_link    |-> None]

\* FlowchartNode.__init__
FlowchartNode(node_id, label, shape) ==
    [node_id      |-> SanitizeId(node_id),
     label        |-> label,
     shape        |-> shape,
     style        |-> None,
     css_class    |-> None,
     click_action |-> None,
     href_link    |-> None]

----------------------------------------------------------------------------
(* dict: the (key, value) entries in insertion order *)

DictHas(d, k) == \E i \in DOMAIN d : d[i].key = k

DictIndex(d, k) == CHOOSE i \in DOMAIN d : d[i].key = k

DictGet(d, k) == d[DictIndex(d, k)].value

\* d[k] = v: an existing key keeps its position
DictSet(d, k, v) ==
    IF DictHas(d, k)
    THEN [d EXCEPT ![DictIndex(d, k)] = [key |-> k, value |-> v]]
    ELSE Append(d, [key |-> k, value |-> v])

DictKeys(d) == {d[i].key : i \in DOMAIN d}

\* str(n) for a natural number
RECURSIVE IntToStr(_)
IntToStr(n) ==
    LET digit(d) == <<"0", "1", "2", "3", "4", "5", "6", "7", "8", "9">>[d + 1]
    IN  IF n < 10 THEN <<digit(n)>> ELSE IntToStr(n \div 10) \o <<digit(n % 10)>>

\* the concatenation of a sequence of sequences
RECURSIVE Flatten(_)
Flatten(seqs) == IF seqs = <<>> THEN <<>> ELSE Head(seqs) \o Flatten(Tail(seqs))

----------------------------------------------------------------------------
(* NodeStyle *)

\* NodeStyle(...): the dataclass, every field None by default
NodeStyle(fill_color, stroke_color, stroke_width, color, font_size, font_weight) ==
    [fill_color   |-> fill_color,
     stroke_color |-> stroke_color,
     stroke_width |-> stroke_width,
     color        |-> color,
     font_size    |-> font_size,
     font_weight  |-> font_weight]

\* NodeStyle.to_css
to_css(style) ==
    LET styles ==
            (IF Truthy(style.fill_color)
             THEN <<<<"f", "i", "l", "l", ":">> \o style.fill_color[1]>> ELSE <<>>)
         \o (IF Truthy(style.stroke_color)
             THEN <<<<"s", "t", "r", "o", "k", "e", ":">> \o style.stroke_color[1]>>
             ELSE <<>>)
         \o (IF style.stroke_width # None /\ style.stroke_width[1] # 0
             THEN <<<<"s", "t", "r", "o", "k", "e", "-", "w", "i", "d", "t", "h", ":">>
                     \o IntToStr(style.stroke_width[1]) \o <<"p", "x">>>>
             ELSE <<>>)
         \o (IF Truthy(style.color)
             THEN <<<<"c", "o", "l", "o", "r", ":">> \o style.color[1]>> ELSE <<>>)
         \o (IF Truthy(style.font_size)
             THEN <<<<"f", "o", "n", "t", "-", "s", "i", "z", "e", ":">>
                     \o style.font_size[1]>>
             ELSE <<>>)
         \o (IF Truthy(style.font_weight)
             THEN <<<<"f", "o", "n", "t", "-", "w", "e", "i", "g", "h", "t", ":">>
                     \o style.font_weight[1]>>
             ELSE <<>>)
    IN  Join(styles, <<",">>)

----------------------------------------------------------------------------
(* FlowchartNode, FlowchartConnection *)

\* FlowchartNode.to_mermaid
NodeToMermaid(n) ==
    LET id == n.node_id
        l  == n.label
    IN  CASE n.shape = "RECTANGLE"         -> id \o <<"[">> \o l \o <<"]">>
          [] n.shape = "ROUND_RECT"        -> id \o <<"(">> \o l \o <<")">>
          [] n.shape = "STADIUM"           -> id \o <<"(", "[">> \o l \o <<"]", ")">>
          [] n.shape = "SUBROUTINE"        -> id \o <<"[", "[">> \o l \o <<"]", "]">>
          [] n.shape = "CYLINDER"          -> id \o <<"[", "(">> \o l \o <<")", "]">>
          [] n.shape = "CIRCLE"            -> id \o <<"(", "(">> \o l \o <<")", ")">>
          [] n.shape = "ASYMMETRIC"        -> id \o <<">">> \o l \o <<"]">>
          [] n.shape = "RHOMBUS"           -> id \o <<"{">> \o l \o <<"}">>
          [] n.shape = "HEXAGON"           -> id \o <<"{", "{">> \o l \o <<"}", "}">>
          [] n.shape = "PARALLELOGRAM"     -> id \o <<"[", "/">> \o l \o <<"/", "]">>
          [] n.shape = "PARALLELOGRAM_ALT" -> id \o <<"[", "\\">> \o l \o <<"\\", "]">>
          [] n.shape = "TRAPEZOID"         -> id \o <<"[", "/">> \o l \o <<"\\", "]">>
          [] n.shape = "TRAPEZOID_ALT"     -> id \o <<"[", "\\">> \o l \o <<"/", "]">>
          [] OTHER                         -> id \o <<"[">> \o l \o <<"]">>

\* FlowchartConnection.__init__
FlowchartConnection(from_node, to_node, arrow_type, label) ==
    [from_node  |-> from_node,
     to_node    |-> to_node,
     arrow_type |-> arrow_type,
     label      |-> label]

\* FlowchartConnection.to_mermaid
ConnectionToMermaid(c) ==
    IF Truthy(c.label)
    THEN c.from_node \o <<" ">> \o ArrowValue(c.arrow_type) \o <<" ", "|">>
            \o c.label[1] \o <<"|", " ">> \o c.to_node
    ELSE c.from_node \o <<" ">> \o ArrowValue(c.arrow_type) \o <<" ">> \o c.to_node

----------------------------------------------------------------------------
(* SubgraphContainer: objects on the heap, nested by reference *)

\* SubgraphContainer.__init__
SubgraphContainer(subgraph_id, title) ==
    [subgraph_id      |-> subgraph_id,
     title            |-> IF Truthy(title) THEN title[1] ELSE subgraph_id,
     nodes            |-> <<>>,
     connections      |-> <<>>,
     nested_subgraphs |-> <<>>]

\* what a call returns: a value, or the exception it raised
Returned(v) == [raised |-> None, value |-> v]
Raised(e) == [raised |-> Some(e), value |-> <<>>]

\* "    " * indent_level
RECURSIVE Indent(_)
Indent(indent_level) ==
    IF indent_level <= 0 THEN <<>>
    ELSE <<" ", " ", " ", " ">> \o Indent(indent_level - 1)

\* SubgraphContainer.to_mermaid. `active` holds the containers whose to_mermaid
\* is on the call stack: a container that reaches itself recurses until the
\* interpreter raises RecursionError.
RECURSIVE SubgraphToMermaid(_, _, _, _)
SubgraphToMermaid(h, ref, indent_level, active) ==
    IF ref \in active THEN Raised("RecursionError")
    ELSE
    LET sg     == h[ref]
        indent == Indent(indent_level)
        nested == [i \in DOMAIN sg.nested_subgraphs |->
                     SubgraphToMermaid(h, sg.nested_subgraphs[i], indent_level + 1,
                                       active \cup {ref})]
        lines  ==
               <<indent \o <<"s", "u", "b", "g", "r", "a", "p", "h", " ">>
                   \o sg.subgraph_id \o <<" ", "[">> \o sg.title \o <<"]">>>>
            \o [i \in DOMAIN sg.nodes |->
                  indent \o <<" ", " ", " ", " ">> \o NodeToMermaid(sg.nodes[i])]
            \o Flatten([i \in DOMAIN nested |-> Split(nested[i].value, <<"\n">>)])
            \o [i \in DOMAIN sg.connections |->
                  indent \o <<" ", " ", " ", " ">>
                    \o ConnectionToMermaid(sg.connections[i])]
            \o <<indent \o <<"e", "n", "d">>>>
    IN  IF \E i \in DOMAIN nested : nested[i].raised # None
        THEN Raised("RecursionError")
        ELSE Returned(Join(lines, <<"\n">>))

----------------------------------------------------------------------------
(* FlowchartBuilder *)

\* FlowchartBuilder.__init__
FlowchartBuilder(title) ==
    [title         |-> title,
     direction     |-> <<"T", "D">>,
     nodes         |-> <<>>,
     connections   |-> <<>>,
     subgraphs     |-> <<>>,
     styles        |-> <<>>,
     css_classes   |-> <<>>,
     click_actions |-> <<>>,
     href_links    |-> <<>>]

\* FlowchartBuilder.set_direction
set_direction(b, direction) == [b EXCEPT !.direction = direction]

\* FlowchartBuilder.add_node, storing the node under a key that is not its node_id
add_node_raw_key(b, node_id, label, shape) ==
    LET n == FlowchartNode(node_id, label, shape)
    IN  [b EXCEPT !.nodes = DictSet(@, node_id, n)]

\* FlowchartBuilder.add_node
add_node(b, node_id, label, shape) ==
    LET n == FlowchartNode(node_id, label, shape)
    IN  [b EXCEPT !.nodes = DictSet(@, n.node_id, n)]

\* FlowchartBuilder.connect that replaces the characters an ID may not hold in
\* the endpoints it stores
connect_sanitized(b, from_node, to_node, arrow_type, label) ==
    LET Clean(id) == [i \in DOMAIN id |-> IF id[i] \in IdChars THEN id[i] ELSE "_"]
    IN  [b EXCEPT !.connections =
            Append(@, [from_node  |-> Clean(from_node),
                       to_node    |-> Clean(to_node),
                       arrow_type |-> arrow_type,
                       label      |-> label])]

\* FlowchartBuilder.connect
connect(b, from_node, to_node, arrow_type, label) ==
    [b EXCEPT !.connections =
        Append(@, FlowchartConnection(from_node, to_node, arrow_type, label))]

\* FlowchartBuilder.style_node (FlowchartNode.set_style on the node, when present)
style_node(b, node_id, style) ==
    LET styled == IF DictHas(b.nodes, node_id)
                  THEN [b EXCEPT !.nodes[DictIndex(b.nodes, node_id)].value.style =
                                    Some(style)]
                  ELSE b
    IN  [styled EXCEPT !.styles = DictSet(@, node_id, style)]

\* FlowchartBuilder.add_css_class
add_css_class(b, class_name, css_definition) ==
    [b EXCEPT !.css_classes = DictSet(@, class_name, css_definition)]

\* FlowchartBuilder.apply_css_class (FlowchartNode.set_css_class)
apply_css_class(b, node_id, class_name) ==
    IF DictHas(b.nodes, node_id)
    THEN [b EXCEPT !.nodes[DictIndex(b.nodes, node_id)].value.css_class =
                      Some(class_name)]
    ELSE b

\* FlowchartBuilder.add_click_action (FlowchartNode.set_click_action)
add_click_action(b, node_id, action) ==
    LET clicked == IF DictHas(b.nodes, node_id)
                   THEN [b EXCEPT !.nodes[DictIndex(b.nodes, node_id)].value.click_action =
                                     Some(action)]
                   ELSE b
    IN  [clicked EXCEPT !.click_actions = DictSet(@, node_id, action)]

\* f'"{url}"' + (f' "{tooltip}"' if tooltip else '')
HrefLink(url, tooltip) ==
    <<"\"">> \o url \o <<"\"">>
        \o (IF Truthy(tooltip) THEN <<" ", "\"">> \o tooltip[1] \o <<"\"">> ELSE <<>>)

\* FlowchartBuilder.add_href_link (FlowchartNode.set_href_link)
add_href_link(b, node_id, url, tooltip) ==
    LET linked == IF DictHas(b.nodes, node_id)
                  THEN [b EXCEPT !.nodes[DictIndex(b.nodes, node_id)].value.href_link =
                                    Some(HrefLink(url, tooltip))]
                  ELSE b
    IN  [linked EXCEPT !.href_links = DictSet(@, node_id, HrefLink(url, tooltip))]

\* FlowchartBuilder.build: the front matter and the declaration line
HeaderLines(b) ==
       (IF Truthy(b.title)
        THEN <<<<"-", "-", "-">>, <<"t", "i", "t", "l", "e", ":", " ">> \o b.title[1], <<"-",
              "-", "-">>>>
        ELSE <<>>)
    \o <<<<"f", "l", "o", "w", "c", "h", "a", "r", "t", " ">> \o b.direction>>

\* FlowchartBuilder.build: one line per root node
NodeLines(b) ==
    [i \in DOMAIN b.nodes |-> <<" ", " ", " ", " ">> \o NodeToMermaid(b.nodes[i].value)]

\* FlowchartBuilder.build: one line per connection
ConnectionLines(b) ==
    [i \in DOMAIN b.connections |-> <<" ", " ", " ", " ">> \o ConnectionToMermaid(b.connections[i])]

\* FlowchartBuilder.build: one classDef line per CSS class
ClassDefLines(b) ==
    [i \in DOMAIN b.css_classes |->
        <<" ", " ", " ", " ", "c", "l", "a", "s", "s", "D", "e", "f", " ">> \o b.css_classes[i].key \o <<" ">> \o b.css_classes[i].value]

\* FlowchartBuilder.build: one style line per style whose CSS is not empty
StyleLines(b) ==
    Flatten([i \in DOMAIN b.styles |->
        IF to_css(b.styles[i].value) # <<>>
        THEN <<<<" ", " ", " ", " ", "s", "t", "y", "l", "e", " ">> \o b.styles[i].key \o <<" ">> \o to_css(b.styles[i].value)>>
        ELSE <<>>])

\* FlowchartBuilder.build: the click lines, callbacks before links
ClickLines(b) ==
       [i \in DOMAIN b.click_actions |->
           <<" ", " ", " ", " ", "c", "l", "i", "c", "k", " ">> \o b.click_actions[i].key \o <<" ">> \o b.click_actions[i].value]
    \o [i \in DOMAIN b.href_links |->
           <<" ", " ", " ", " ", "c", "l", "i", "c", "k", " ">> \o b.href_links[i].key \o <<" ",
                 "h", "r", "e", "f", " ">> \o b.href_links[i].value]

\* the `lines` list with the connections appended before the nodes
BuildLinesConnectionsFirst(b, rendered) ==
       HeaderLines(b)
    \o ConnectionLines(b)
    \o NodeLines(b)
    \o [i \in DOMAIN rendered |-> rendered[i].value]
    \o ClassDefLines(b)
    \o StyleLines(b)
    \o ClickLines(b)

\* the `lines` list of FlowchartBuilder.build, for subgraphs that rendered
BuildLines(b, rendered) ==
       HeaderLines(b)
    \o NodeLines(b)
    \o [i \in DOMAIN rendered |-> rendered[i].value]
    \o ConnectionLines(b)
    \o ClassDefLines(b)
    \o StyleLines(b)
    \o ClickLines(b)

\* FlowchartBuilder.build: the document, or the exception a subgraph raised
build(b, h) ==
    LET rendered == [i \in DOMAIN b.subgraphs |->
                       SubgraphToMermaid(h, b.subgraphs[i], 1, {})]
    IN  IF \E i \in DOMAIN rendered : rendered[i].raised # None
        THEN Raised("RecursionError")
        ELSE Returned(Join(BuildLines(b, rendered), <<"\n">>))

----------------------------------------------------------------------------
(* FlowchartValidator.  A message is its text; the one message that joins a *)
(* Python set (the isolated nodes) keeps the set beside the text before it,  *)
(* because the order ', '.join gives a set's elements is the hash order.     *)

Msg(text) == [text |-> text, names |-> {}]

\* FlowchartValidator.__init__
FlowchartValidator == [errors |-> <<>>, warnings |-> <<>>]

\* list.clear() that leaves the list as it is
KeepList(list) == list

\* list.clear()
ClearList(list) == <<>>

\* what a validate call leaves: the two lists and the returned boolean
Validated(errors, warnings, result) ==
    [errors |-> errors, warnings |-> warnings, result |-> result]

\* the errors of the connection loop that checks only the source side
ConnectionErrorsSourceOnly(conns, node_ids) ==
    Flatten([i \in DOMAIN conns |->
        IF conns[i].from_node \notin node_ids
        THEN <<Msg(<<"C", "o", "n", "n", "e", "c", "t", "i", "o", "n", " ", "r", "e",
                     "f", "e", "r", "e", "n", "c", "e", "s", " ", "u", "n", "k", "n",
                     "o", "w", "n", " ", "s", "o", "u", "r", "c", "e", " ", "n", "o",
                     "d", "e", ":", " ">>
                   \o conns[i].from_node)>>
        ELSE <<>>])

\* FlowchartValidator.validate_builder, "Validate connections": the errors the
\* loop appends
ConnectionErrors(conns, node_ids) ==
    Flatten([i \in DOMAIN conns |->
           (IF conns[i].from_node \notin node_ids
            THEN <<Msg(<<"C", "o", "n", "n", "e", "c", "t", "i", "o", "n", " ", "r",
                         "e", "f", "e", "r", "e", "n", "c", "e", "s", " ", "u", "n",
                         "k", "n", "o", "w", "n", " ", "s", "o", "u", "r", "c", "e",
                         " ", "n", "o", "d", "e", ":", " ">>
                       \o conns[i].from_node)>>
            ELSE <<>>)
        \o (IF conns[i].to_node \notin node_ids
            THEN <<Msg(<<"C", "o", "n", "n", "e", "c", "t", "i", "o", "n", " ", "r",
                         "e", "f", "e", "r", "e", "n", "c", "e", "s", " ", "u", "n",
                         "k", "n", "o", "w", "n", " ", "t", "a", "r", "g", "e", "t",
                         " ", "n", "o", "d", "e", ":", " ">>
                       \o conns[i].to_node)>>
            ELSE <<>>)])

\* the isolated-node check that counts only connection sources as connected
IsolatedWarningSourcesOnly(conns, node_ids) ==
    LET connected_nodes == {conns[i].from_node : i \in DOMAIN conns}
        isolated_nodes  == node_ids \ connected_nodes
    IN  IF isolated_nodes # {}
        THEN <<[text |-> <<"I", "s", "o", "l", "a", "t", "e", "d", " ", "n", "o", "d",
                           "e", "s", " ", "f", "o", "u", "n", "d", ":", " ">>, names |-> isolated_nodes]>>
        ELSE <<>>

\* FlowchartValidator.validate_builder, "Check for isolated nodes": the warning
\* it appends
IsolatedWarning(conns, node_ids) ==
    LET connected_nodes == {conns[i].from_node : i \in DOMAIN conns}
                           \cup {conns[i].to_node : i \in DOMAIN conns}
        isolated_nodes  == node_ids \ connected_nodes
    IN  IF isolated_nodes # {}
        THEN <<[text |-> <<"I", "s", "o", "l", "a", "t", "e", "d", " ", "n", "o", "d",
                           "e", "s", " ", "f", "o", "u", "n", "d", ":", " ">>, names |-> isolated_nodes]>>
        ELSE <<>>

\* the start/end check that takes every source for a start and every target
\* for an end
StartEndWarningsAnyEndpoint(conns) ==
    LET source_nodes == {conns[i].from_node : i \in DOMAIN conns}
        target_nodes == {conns[i].to_node : i \in DOMAIN conns}
    IN     (IF source_nodes = {}
            THEN <<[text  |-> <<"N", "o", " ", "c", "l", "e", "a", "r", " ", "s", "t",
                                "a", "r", "t", " ", "n", "o", "d", "e", " ", "f", "o",
                                "u", "n", "d", " ", "(", "n", "o", "d", "e", " ", "w",
                                "i", "t", "h", " ", "n", "o", " ", "i", "n", "c", "o",
                                "m", "i", "n", "g", " ", "c", "o", "n", "n", "e", "c",
                                "t", "i", "o", "n", "s", ")">>,
                    names |-> {}]>>
            ELSE <<>>)
        \o (IF target_nodes = {}
            THEN <<[text  |-> <<"N", "o", " ", "c", "l", "e", "a", "r", " ", "e", "n",
                                "d", " ", "n", "o", "d", "e", " ", "f", "o", "u", "n",
                                "d", " ", "(", "n", "o", "d", "e", " ", "w", "i", "t",
                                "h", " ", "n", "o", " ", "o", "u", "t", "g", "o", "i",
                                "n", "g", " ", "c", "o", "n", "n", "e", "c", "t", "i",
                                "o", "n", "s", ")">>,
                    names |-> {}]>>
            ELSE <<>>)

\* FlowchartValidator.validate_builder, "Check for potential start/end nodes":
\* the warnings it appends
StartEndWarnings(conns) ==
    LET source_nodes     == {conns[i].from_node : i \in DOMAIN conns}
        target_nodes     == {conns[i].to_node : i \in DOMAIN conns}
        start_candidates == source_nodes \ target_nodes
        end_candidates   == target_nodes \ source_nodes
    IN     (IF start_candidates = {}
            THEN <<Msg(<<"N", "o", " ", "c", "l", "e", "a", "r", " ", "s", "t", "a",
                         "r", "t", " ", "n", "o", "d", "e", " ", "f", "o", "u", "n",
                         "d", " ", "(", "n", "o", "d", "e", " ", "w", "i", "t", "h",
                         " ", "n", "o", " ", "i", "n", "c", "o", "m", "i", "n", "g",
                         " ", "c", "o", "n", "n", "e", "c", "t", "i", "o", "n", "s", ")">>)>>
            ELSE <<>>)
        \o (IF end_candidates = {}
            THEN <<Msg(<<"N", "o", " ", "c", "l", "e", "a", "r", " ", "e", "n", "d",
                         " ", "n", "o", "d", "e", " ", "f", "o", "u", "n", "d", " ",
                         "(", "n", "o", "d", "e", " ", "w", "i", "t", "h", " ", "n",
                         "o", " ", "o", "u", "t", "g", "o", "i", "n", "g", " ", "c",
                         "o", "n", "n", "e", "c", "t", "i", "o", "n", "s", ")">>)>>
            ELSE <<>>)

\* the checks of validate_builder, returning False when there are warnings too
GraphChecksStrict(errors, warnings, b) ==
    LET node_ids  == DictKeys(b.nodes)
        errors1   == errors \o ConnectionErrors(b.connections, node_ids)
        warnings1 == warnings \o IsolatedWarning(b.connections, node_ids)
                              \o StartEndWarnings(b.connections)
    IN  Validated(errors1, warnings1, Len(errors1) = 0 /\ Len(warnings1) = 0)

\* FlowchartValidator.validate_builder past the empty-node-map return
GraphChecks(errors, warnings, b) ==
    LET node_ids  == DictKeys(b.nodes)
        errors1   == errors \o ConnectionErrors(b.connections, node_ids)
        warnings1 == warnings \o IsolatedWarning(b.connections, node_ids)
                              \o StartEndWarnings(b.connections)
    IN  Validated(errors1, warnings1, Len(errors1) = 0)

\* FlowchartValidator.validate_builder without the return in the empty case
validate_builder_no_return(v, b) ==
    LET errors0   == ClearList(v.errors)
        warnings0 == ClearList(v.warnings)
    IN  IF b.nodes = <<>>
        THEN GraphChecks(
                Append(errors0, Msg(<<"F", "l", "o", "w", "c", "h", "a", "r", "t", " ",
                                      "m", "u", "s", "t", " ", "c", "o", "n", "t", "a",
                                      "i", "n", " ", "a", "t", " ", "l", "e", "a", "s",
                                      "t", " ", "o", "n", "e", " ", "n", "o", "d", "e">>)),
                warnings0, b)
        ELSE GraphChecks(errors0, warnings0, b)

\* FlowchartValidator.validate_builder
validate_builder(v, b) ==
    LET errors0   == ClearList(v.errors)
        warnings0 == ClearList(v.warnings)
    IN  IF b.nodes = <<>>
        THEN Validated(
                Append(errors0, Msg(<<"F", "l", "o", "w", "c", "h", "a", "r", "t", " ",
                                      "m", "u", "s", "t", " ", "c", "o", "n", "t", "a",
                                      "i", "n", " ", "a", "t", " ", "l", "e", "a", "s",
                                      "t", " ", "o", "n", "e", " ", "n", "o", "d", "e">>)),
                warnings0, FALSE)
        ELSE GraphChecks(errors0, warnings0, b)

\* str.lower() of one character
LowerChar(c) ==
    LET upper == <<"A", "B", "C", "D", "E", "F", "G", "H", "I", "J", "K", "L", "M",
                   "N", "O", "P", "Q", "R", "S", "T", "U", "V", "W", "X", "Y", "Z">>
        lower == <<"a", "b", "c", "d", "e", "f", "g", "h", "i", "j", "k", "l", "m",
                   "n", "o", "p", "q", "r", "s", "t", "u", "v", "w", "x", "y", "z">>
    IN  IF c \in Upper THEN lower[CHOOSE i \in DOMAIN upper : upper[i] = c] ELSE c

\* str.lower()
ToLower(s) == [i \in DOMAIN s |-> LowerChar(s[i])]

\* [line.strip() for line in mermaid_code.split('\n') if line.strip()]
StrippedLines(mermaid_code) ==
    LET raw == Split(mermaid_code, <<"\n">>)
        IsFilled(line) == line # <<>>
    IN  SelectSeq([i \in DOMAIN raw |-> Strip(raw[i])], IsFilled)

\* FlowchartValidator._validate_flowchart_syntax: the warnings it appends, and
\* whether a declaration line was seen
FlowchartSyntaxScan(lines) ==
    LET IsDeclaration(line) ==
            StartsWith(line, <<"f", "l", "o", "w", "c", "h", "a", "r", "t", " ">>) \/ StartsWith(line, <<"g",
                                                                                        "r",
                                                                                        "a",
                                                                                        "p",
                                                                                        "h",
                                                                                        " ">>)
        DirectionOf(line) ==
            IF StartsWith(line, <<"f", "l", "o", "w", "c", "h", "a", "r", "t", " ">>)
            THEN Strip(From(line, 11))
            ELSE Strip(From(line, 7))
        valid_directions == {<<"T", "D">>, <<"T", "B">>, <<"B", "T">>, <<"R", "L">>, <<"L",
              "R">>}
        LineWarnings(line_num) ==
            LET line == lines[line_num]
            IN  IF StartsWith(line, <<"%", "%">>) THEN <<>>
                ELSE (IF /\ IsDeclaration(line)
                         /\ DirectionOf(line) # <<>>
                         /\ DirectionOf(line) \notin valid_directions
                      THEN <<Msg(<<"L", "i", "n", "e", " ">> \o IntToStr(line_num)
                                 \o <<":", " ", "U", "n", "k", "n", "o", "w", "n", " ",
                                      "d", "i", "r", "e", "c", "t", "i", "o", "n", " ",
                                      "'">> \o DirectionOf(line)
                                 \o <<"'">>)>>
                      ELSE <<>>)
                  \o (IF /\ Contains(line, <<"-", "-", ">">>) \/ Contains(line, <<"-",
                                                                   "-", "-">>)
                         /\ Count(line, <<"-", "-", ">">>) + Count(line, <<"-", "-", "-">>) > 1
                      THEN <<Msg(<<"L", "i", "n", "e", " ">> \o IntToStr(line_num)
                                 \o <<":", " ", "M", "u", "l", "t", "i", "p", "l", "e",
                                      " ", "a", "r", "r", "o", "w", "s", " ", "i", "n",
                                      " ", "s", "i", "n", "g", "l", "e", " ", "l", "i",
                                      "n", "e">>)>>
                      ELSE <<>>)
    IN  [warnings        |-> Flatten([n \in DOMAIN lines |-> LineWarnings(n)]),
         has_declaration |-> \E n \in DOMAIN lines :
                                /\ ~StartsWith(lines[n], <<"%", "%">>)
                                /\ IsDeclaration(lines[n])]

\* FlowchartValidator._validate_flowchart_syntax that only warns when the
\* declaration is missing
validate_flowchart_syntax_lenient(errors, warnings, lines) ==
    LET scan      == FlowchartSyntaxScan(lines)
        warnings1 == IF ~scan.has_declaration
                     THEN Append(warnings \o scan.warnings,
                                 Msg(<<"M", "i", "s", "s", "i", "n", "g", " ", "'",
                                       "f", "l", "o", "w", "c", "h", "a", "r", "t",
                                       "'", " ", "o", "r", " ", "'", "g", "r", "a",
                                       "p", "h", "'", " ", "d", "e", "c", "l", "a",
                                       "r", "a", "t", "i", "o", "n">>))
                     ELSE warnings \o scan.warnings
    IN  Validated(errors, warnings1, Len(errors) = 0)

\* FlowchartValidator._validate_flowchart_syntax
validate_flowchart_syntax(errors, warnings, lines) ==
    LET scan    == FlowchartSyntaxScan(lines)
        errors1 == IF ~scan.has_declaration
                   THEN Append(errors, Msg(<<"M", "i", "s", "s", "i", "n", "g", " ",
                         "'", "f", "l", "o", "w", "c", "h", "a", "r", "t", "'", " ",
                         "o", "r", " ", "'", "g", "r", "a", "p", "h", "'", " ", "d",
                         "e", "c", "l", "a", "r", "a", "t", "i", "o", "n">>))
                   ELSE errors
    IN  Validated(errors1, warnings \o scan.warnings, Len(errors1) = 0)

\* FlowchartValidator._validate_pie_syntax that takes a missing title for an
\* error
validate_pie_syntax_title_required(errors, warnings, lines) ==
    LET Counted(n) == ~StartsWith(lines[n], <<"%", "%">>)
        has_title == \E n \in DOMAIN lines :
                        /\ Counted(n)
                        /\ StartsWith(lines[n], <<"p", "i", "e">>)
                        /\ Contains(lines[n], <<"t", "i", "t", "l", "e">>)
        has_data  == \E n \in DOMAIN lines :
                        /\ Counted(n)
                        /\ ~StartsWith(lines[n], <<"p", "i", "e">>)
                        /\ Contains(lines[n], <<":">>)
                        /\ Contains(lines[n], <<"\"">>)
        errors1   == IF ~has_title
                     THEN Append(errors, Msg(<<"P", "i", "e", " ", "c", "h", "a", "r",
                           "t", " ", "s", "h", "o", "u", "l", "d", " ", "h", "a", "v",
                           "e", " ", "a", " ", "t", "i", "t", "l", "e">>))
                     ELSE errors
        errors2   == IF ~has_data
                     THEN Append(errors1, Msg(<<"P", "i", "e", " ", "c", "h", "a", "r",
                           "t", " ", "m", "u", "s", "t", " ", "h", "a", "v", "e", " ",
                           "d", "a", "t", "a", " ", "e", "n", "t", "r", "i", "e", "s">>))
                     ELSE errors1
    IN  Validated(errors2, warnings, Len(errors2) = 0)

\* FlowchartValidator._validate_pie_syntax
validate_pie_syntax(errors, warnings, lines) ==
    LET Counted(n) == ~StartsWith(lines[n], <<"%", "%">>)
        has_title == \E n \in DOMAIN lines :
                        /\ Counted(n)
                        /\ StartsWith(lines[n], <<"p", "i", "e">>)
                        /\ Contains(lines[n], <<"t", "i", "t", "l", "e">>)
        has_data  == \E n \in DOMAIN lines :
                        /\ Counted(n)
                        /\ ~StartsWith(lines[n], <<"p", "i", "e">>)
                        /\ Contains(lines[n], <<":">>)
                        /\ Contains(lines[n], <<"\"">>)
        warnings1 == IF ~has_title
                     THEN Append(warnings, Msg(<<"P", "i", "e", " ", "c", "h", "a",
                           "r", "t", " ", "s", "h", "o", "u", "l", "d", " ", "h", "a",
                           "v", "e", " ", "a", " ", "t", "i", "t", "l", "e">>))
                     ELSE warnings
        errors1   == IF ~has_data
                     THEN Append(errors, Msg(<<"P", "i", "e", " ", "c", "h", "a", "r",
                           "t", " ", "m", "u", "s", "t", " ", "h", "a", "v", "e", " ",
                           "d", "a", "t", "a", " ", "e", "n", "t", "r", "i", "e", "s">>))
                     ELSE errors
    IN  Validated(errors1, warnings1, Len(errors1) = 0)

\* FlowchartValidator._validate_quadrant_syntax that asks for the x-axis only
validate_quadrant_syntax_x_only(errors, warnings, lines) ==
    LET Has(kw) ==
            \E n \in DOMAIN lines :
                /\ ~StartsWith(lines[n], <<"%", "%">>)
                /\ StartsWith(Strip(ToLower(lines[n])), kw)
        has_data_points ==
            \E n \in DOMAIN lines :
                /\ ~StartsWith(lines[n], <<"%", "%">>)
                /\ \A kw \in {<<"q", "u", "a", "d", "r", "a", "n", "t", "c", "h", "a",
                                "r", "t">>, <<"t", "i", "t", "l", "e", " ">>, <<"x",
                                      "-", "a", "x", "i", "s", " ">>, <<"y", "-", "a",
                                            "x", "i", "s", " ">>, <<"q", "u", "a", "d",
                                                  "r", "a", "n", "t", "-">>} :
                      ~StartsWith(Strip(ToLower(lines[n])), kw)
                /\ Contains(lines[n], <<":">>)
                /\ Contains(lines[n], <<"[">>)
                /\ Contains(lines[n], <<"]">>)
        warnings1 ==
            warnings
            \o (IF ~Has(<<"t", "i", "t", "l", "e", " ">>)
                THEN <<Msg(<<"Q", "u", "a", "d", "r", "a", "n", "t", " ", "c", "h",
                             "a", "r", "t", " ", "s", "h", "o", "u", "l", "d", " ",
                             "h", "a", "v", "e", " ", "a", " ", "t", "i", "t", "l", "e">>)>> ELSE <<>>)
            \o (IF ~Has(<<"q", "u", "a", "d", "r", "a", "n", "t", "-">>)
                THEN <<Msg(<<"Q", "u", "a", "d", "r", "a", "n", "t", " ", "c", "h",
                             "a", "r", "t", " ", "s", "h", "o", "u", "l", "d", " ",
                             "d", "e", "f", "i", "n", "e", " ", "q", "u", "a", "d",
                             "r", "a", "n", "t", " ", "l", "a", "b", "e", "l", "s">>)>> ELSE <<>>)
            \o (IF ~has_data_points
                THEN <<Msg(<<"Q", "u", "a", "d", "r", "a", "n", "t", " ", "c", "h",
                             "a", "r", "t", " ", "s", "h", "o", "u", "l", "d", " ",
                             "h", "a", "v", "e", " ", "d", "a", "t", "a", " ", "p",
                             "o", "i", "n", "t", "s">>)>> ELSE <<>>)
        errors1 ==
            errors
            \o (IF ~Has(<<"x", "-", "a", "x", "i", "s", " ">>)
                THEN <<Msg(<<"Q", "u", "a", "d", "r", "a", "n", "t", " ", "c", "h",
                             "a", "r", "t", " ", "m", "u", "s", "t", " ", "h", "a",
                             "v", "e", " ", "x", "-", "a", "x", "i", "s", " ", "d",
                             "e", "f", "i", "n", "i", "t", "i", "o", "n">>)>> ELSE <<>>)
    IN  Validated(errors1, warnings1, Len(errors1) = 0)

\* FlowchartValidator._validate_quadrant_syntax
validate_quadrant_syntax(errors, warnings, lines) ==
    LET \* the branch of the if/elif chain a line takes
        Branch(line) ==
            LET line_lower == ToLower(line)
            IN  IF StartsWith(line, <<"%", "%">>) THEN "comment"
                ELSE IF StartsWith(line_lower, <<"q", "u", "a", "d", "r", "a", "n",
                      "t", "c", "h", "a", "r", "t">>) THEN "declaration"
                ELSE IF StartsWith(Strip(line_lower), <<"t", "i", "t", "l", "e", " ">>) THEN "title"
                ELSE IF StartsWith(Strip(line_lower), <<"x", "-", "a", "x", "i", "s",
                      " ">>) THEN "x_axis"
                ELSE IF StartsWith(Strip(line_lower), <<"y", "-", "a", "x", "i", "s",
                      " ">>) THEN "y_axis"
                ELSE IF StartsWith(Strip(line_lower), <<"q", "u", "a", "d", "r", "a",
                      "n", "t", "-">>) THEN "quadrants"
                ELSE IF /\ Contains(line, <<":">>)
                        /\ Contains(line, <<"[">>)
                        /\ Contains(line, <<"]">>)
                     THEN "data_points"
                ELSE "other"
        Has(branch) == \E n \in DOMAIN lines : Branch(lines[n]) = branch
        warnings1 ==
            warnings
            \o (IF ~Has("title")
                THEN <<Msg(<<"Q", "u", "a", "d", "r", "a", "n", "t", " ", "c", "h",
                             "a", "r", "t", " ", "s", "h", "o", "u", "l", "d", " ",
                             "h", "a", "v", "e", " ", "a", " ", "t", "i", "t", "l", "e">>)>> ELSE <<>>)
            \o (IF ~Has("quadrants")
                THEN <<Msg(<<"Q", "u", "a", "d", "r", "a", "n", "t", " ", "c", "h",
                             "a", "r", "t", " ", "s", "h", "o", "u", "l", "d", " ",
                             "d", "e", "f", "i", "n", "e", " ", "q", "u", "a", "d",
                             "r", "a", "n", "t", " ", "l", "a", "b", "e", "l", "s">>)>> ELSE <<>>)
            \o (IF ~Has("data_points")
                THEN <<Msg(<<"Q", "u", "a", "d", "r", "a", "n", "t", " ", "c", "h",
                             "a", "r", "t", " ", "s", "h", "o", "u", "l", "d", " ",
                             "h", "a", "v", "e", " ", "d", "a", "t", "a", " ", "p",
                             "o", "i", "n", "t", "s">>)>> ELSE <<>>)
        errors1 ==
            errors
            \o (IF ~Has("x_axis")
                THEN <<Msg(<<"Q", "u", "a", "d", "r", "a", "n", "t", " ", "c", "h",
                             "a", "r", "t", " ", "m", "u", "s", "t", " ", "h", "a",
                             "v", "e", " ", "x", "-", "a", "x", "i", "s", " ", "d",
                             "e", "f", "i", "n", "i", "t", "i", "o", "n">>)>> ELSE <<>>)
            \o (IF ~Has("y_axis")
                THEN <<Msg(<<"Q", "u", "a", "d", "r", "a", "n", "t", " ", "c", "h",
                             "a", "r", "t", " ", "m", "u", "s", "t", " ", "h", "a",
                             "v", "e", " ", "y", "-", "a", "x", "i", "s", " ", "d",
                             "e", "f", "i", "n", "i", "t", "i", "o", "n">>)>> ELSE <<>>)
    IN  Validated(errors1, warnings1, Len(errors1) = 0)

\* the diagram type read off the first line, taking a first line that no
\* keyword matches for a flowchart declaration
DiagramTypeOfDefaultFlowchart(first_line) ==
    IF StartsWith(first_line, <<"f", "l", "o", "w", "c", "h", "a", "r", "t", " ">>) THEN Some(<<"f",
          "l", "o", "w", "c", "h", "a", "r", "t">>)
    ELSE IF StartsWith(first_line, <<"g", "r", "a", "p", "h", " ">>) THEN Some(<<"g",
          "r", "a", "p", "h">>)
    ELSE IF StartsWith(first_line, <<"p", "i", "e">>) THEN Some(<<"p", "i", "e">>)
    ELSE IF StartsWith(first_line, <<"q", "u", "a", "d", "r", "a", "n", "t", "c", "h",
                                     "a", "r", "t">>) THEN Some(<<"q", "u", "a", "d",
                                           "r", "a", "n", "t">>)
    ELSE IF StartsWith(first_line, <<"g", "i", "t", "g", "r", "a", "p", "h">>) THEN Some(<<"g",
          "i", "t", "g", "r", "a", "p", "h">>)
    ELSE IF StartsWith(first_line, <<"g", "a", "n", "t", "t">>) THEN Some(<<"g", "a",
          "n", "t", "t">>)
    ELSE IF StartsWith(first_line, <<"s", "e", "q", "u", "e", "n", "c", "e", "d", "i",
                                     "a", "g", "r", "a", "m">>) THEN Some(<<"s", "e",
                                           "q", "u", "e", "n", "c", "e">>)
    ELSE IF StartsWith(first_line, <<"c", "l", "a", "s", "s", "D", "i", "a", "g", "r",
                                     "a", "m">>) THEN Some(<<"c", "l", "a", "s", "s">>)
    ELSE IF StartsWith(first_line, <<"s", "t", "a", "t", "e", "d", "i", "a", "g", "r",
                                     "a", "m">>) THEN Some(<<"s", "t", "a", "t", "e">>)
    ELSE IF StartsWith(first_line, <<"e", "r", "d", "i", "a", "g", "r", "a", "m">>) THEN Some(<<"e",
          "r">>)
    ELSE IF StartsWith(first_line, <<"j", "o", "u", "r", "n", "e", "y">>) THEN Some(<<"j",
          "o", "u", "r", "n", "e", "y">>)
    ELSE Some(<<"f", "l", "o", "w", "c", "h", "a", "r", "t">>)

\* the diagram type validate_mermaid_syntax reads off the first line; None when
\* no keyword matches
DiagramTypeOf(first_line) ==
    IF StartsWith(first_line, <<"f", "l", "o", "w", "c", "h", "a", "r", "t", " ">>) THEN Some(<<"f",
          "l", "o", "w", "c", "h", "a", "r", "t">>)
    ELSE IF StartsWith(first_line, <<"g", "r", "a", "p", "h", " ">>) THEN Some(<<"g",
          "r", "a", "p", "h">>)
    ELSE IF StartsWith(first_line, <<"p", "i", "e">>) THEN Some(<<"p", "i", "e">>)
    ELSE IF StartsWith(first_line, <<"q", "u", "a", "d", "r", "a", "n", "t", "c", "h",
                                     "a", "r", "t">>) THEN Some(<<"q", "u", "a", "d",
                                           "r", "a", "n", "t">>)
    ELSE IF StartsWith(first_line, <<"g", "i", "t", "g", "r", "a", "p", "h">>) THEN Some(<<"g",
          "i", "t", "g", "r", "a", "p", "h">>)
    ELSE IF StartsWith(first_line, <<"g", "a", "n", "t", "t">>) THEN Some(<<"g", "a",
          "n", "t", "t">>)
    ELSE IF StartsWith(first_line, <<"s", "e", "q", "u", "e", "n", "c", "e", "d", "i",
                                     "a", "g", "r", "a", "m">>) THEN Some(<<"s", "e",
                                           "q", "u", "e", "n", "c", "e">>)
    ELSE IF StartsWith(first_line, <<"c", "l", "a", "s", "s", "D", "i", "a", "g", "r",
                                     "a", "m">>) THEN Some(<<"c", "l", "a", "s", "s">>)
    ELSE IF StartsWith(first_line, <<"s", "t", "a", "t", "e", "d", "i", "a", "g", "r",
                                     "a", "m">>) THEN Some(<<"s", "t", "a", "t", "e">>)
    ELSE IF StartsWith(first_line, <<"e", "r", "d", "i", "a", "g", "r", "a", "m">>) THEN Some(<<"e",
          "r">>)
    ELSE IF StartsWith(first_line, <<"j", "o", "u", "r", "n", "e", "y">>) THEN Some(<<"j",
          "o", "u", "r", "n", "e", "y">>)
    ELSE None

\* FlowchartValidator.validate_mermaid_syntax
validate_mermaid_syntax(v, mermaid_code) ==
    LET errors0    == ClearList(v.errors)
        warnings0  == ClearList(v.warnings)
        lines      == StrippedLines(mermaid_code)
        first_line == ToLower(lines[1])
        declared   == DiagramTypeOf(first_line)
        \* Try to detect from content patterns
        content    == ToLower(Join(lines, <<" ">>))
        sniffed    == IF Contains(content, <<"p", "i", "e", " ", "t", "i", "t", "l", "e">>) THEN Some(<<"p",
              "i", "e">>)
                      ELSE IF Contains(content, <<"-", "-", ">">>) \/ Contains(content, <<"-",
                                                                        "-", "-">>)
                           THEN Some(<<"f", "l", "o", "w", "c", "h", "a", "r", "t">>)
                      ELSE None
        diagram_type == IF declared # None THEN declared ELSE sniffed
        warnings1  == IF declared = None /\ sniffed = Some(<<"f", "l", "o", "w", "c",
                                              "h", "a", "r", "t">>)
                      THEN Append(warnings0,
                             Msg(<<"D", "e", "t", "e", "c", "t", "e", "d", " ", "f",
                                   "l", "o", "w", "c", "h", "a", "r", "t", " ", "c",
                                   "o", "n", "n", "e", "c", "t", "i", "o", "n", "s",
                                   " ", "b", "u", "t", " ", "m", "i", "s", "s", "i",
                                   "n", "g", " ", "d", "i", "a", "g", "r", "a", "m",
                                   " ", "d", "e", "c", "l", "a", "r", "a", "t", "i",
                                   "o", "n">>))
                      ELSE warnings0
    IN  IF lines = <<>>
        THEN Validated(Append(errors0, Msg(<<"E", "m", "p", "t", "y", " ", "d", "i",
              "a", "g", "r", "a", "m">>)), warnings0, FALSE)
        ELSE IF diagram_type = None
        THEN Validated(
                Append(errors0,
                  Msg(<<"C", "o", "u", "l", "d", " ", "n", "o", "t", " ", "d", "e",
                        "t", "e", "r", "m", "i", "n", "e", " ", "d", "i", "a", "g",
                        "r", "a", "m", " ", "t", "y", "p", "e", " ", "-", " ", "p",
                        "l", "e", "a", "s", "e", " ", "a", "d", "d", " ", "p", "r",
                        "o", "p", "e", "r", " ", "d", "i", "a", "g", "r", "a", "m",
                        " ", "d", "e", "c", "l", "a", "r", "a", "t", "i", "o", "n">>)),
                warnings0, FALSE)
        ELSE IF diagram_type[1] \in {<<"f", "l", "o", "w", "c", "h", "a", "r", "t">>, <<"g",
              "r", "a", "p", "h">>}
        THEN validate_flowchart_syntax(errors0, warnings1, lines)
        ELSE IF diagram_type[1] = <<"p", "i", "e">>
        THEN validate_pie_syntax(errors0, warnings1, lines)
        ELSE IF diagram_type[1] = <<"q", "u", "a", "d", "r", "a", "n", "t">>
        THEN validate_quadrant_syntax(errors0, warnings1, lines)
        ELSE Validated(errors0,
                       Append(warnings1,
                              Msg(<<"B", "a", "s", "i", "c", " ", "v", "a", "l", "i",
                                    "d", "a", "t", "i", "o", "n", " ", "o", "n", "l",
                                    "y", " ", "f", "o", "r", " ">> \o diagram_type[1]
                                  \o <<" ", "d", "i", "a", "g", "r", "a", "m", "s">>)),
                       TRUE)

----------------------------------------------------------------------------
(* FlowchartParser *)

\* str.split(sep, maxsplit)
RECURSIVE SplitMax(_, _, _)
SplitMax(s, sep, maxsplit) ==
    LET i == Find(s, sep)
    IN  IF maxsplit = 0 \/ i = 0
        THEN <<s>>
        ELSE <<SubSeq(s, 1, i - 1)>> \o SplitMax(From(s, i + Len(sep)), sep, maxsplit - 1)

\* the least element of a non-empty set of integers
Min(S) == CHOOSE x \in S : \A y \in S : x <= y

\* the position of the first q at or after position i of s; 0 when there is none
NextChar(s, q, i) ==
    LET at == {j \in i..Len(s) : s[j] = q}
    IN  IF at = {} THEN 0 ELSE Min(at)

\* the regular expression q([^q]+)q matches s at position i: the position of
\* the closing q, or 0
DelimitedAt(s, q, i) ==
    IF i <= Len(s) /\ s[i] = q /\ NextChar(s, q, i + 1) > i + 1
    THEN NextChar(s, q, i + 1)
    ELSE 0

\* re.search(q([^q]+)q, s): the start of the leftmost match, or 0
SearchDelimited(s, q) ==
    LET at == {i \in 1..Len(s) : DelimitedAt(s, q, i) # 0}
    IN  IF at = {} THEN 0 ELSE Min(at)

\* group(1) of re.search(q([^q]+)q, s), which matches
DelimitedGroup(s, q) ==
    LET i == SearchDelimited(s, q)
    IN  SubSeq(s, i + 1, DelimitedAt(s, q, i) - 1)

\* re.sub(q[^q]+q, '', s): every match, left to right, removed
RECURSIVE RemoveDelimited(_, _)
RemoveDelimited(s, q) ==
    LET i == SearchDelimited(s, q)
    IN  IF i = 0 THEN s
        ELSE SubSeq(s, 1, i - 1) \o RemoveDelimited(From(s, DelimitedAt(s, q, i) + 1), q)

\* re.search(r'"[^"]+" "([^"]+)"', s): group(1) of the leftmost match, or None
SearchTooltip(s) ==
    LET q == "\""
        Second(i) == DelimitedAt(s, q, i) + 2
        at == {i \in 1..Len(s) :
                 /\ DelimitedAt(s, q, i) # 0
                 /\ DelimitedAt(s, q, i) + 1 <= Len(s)
                 /\ s[DelimitedAt(s, q, i) + 1] = " "
                 /\ DelimitedAt(s, q, Second(i)) # 0}
    IN  IF at = {} THEN None
        ELSE Some(SubSeq(s, Second(Min(at)) + 1, DelimitedAt(s, q, Second(Min(at))) - 1))

\* FlowchartParser._parse_connection, the loop: the first arrow type, in
\* ArrowType order, whose token is in the line and splits it in two
MatchingArrow(line) ==
    LET fits == {k \in DOMAIN ArrowType :
                    /\ Contains(line, ArrowValue(ArrowType[k]))
                    /\ Len(Split(line, ArrowValue(ArrowType[k]))) = 2}
    IN  IF fits = {} THEN None ELSE Some(ArrowType[Min(fits)])

\* FlowchartParser._parse_connection
parse_connection(b, line) ==
    LET arrow == MatchingArrow(line)
        parts     == Split(line, ArrowValue(arrow[1]))
        from_node == Strip(parts[1])
        to_part   == Strip(parts[2])
        labelled  == Contains(to_part, <<"|">>) /\ SearchDelimited(line, "|") # 0
    IN  IF arrow = None THEN b
        ELSE IF labelled
        THEN connect(b, from_node, Strip(RemoveDelimited(to_part, "|")), arrow[1],
                     Some(Strip(DelimitedGroup(line, "|"))))
        ELSE connect(b, from_node, to_part, arrow[1], None)

\* re.match(r'(\w+)OPEN([^CLOSE]+)CLOSE', line): the groups, or None
MatchNode(line, open, close) ==
    LET words == {n \in 1..Len(line) : \A i \in 1..n : line[i] \in WordChars}
        n     == IF words = {} THEN 0
                 ELSE CHOOSE m \in words : \A k \in words : k <= m
        end   == NextChar(line, close, n + 2)
    IN  IF n > 0 /\ n + 1 <= Len(line) /\ line[n + 1] = open /\ end > n + 2
        THEN Some([node_id |-> SubSeq(line, 1, n),
                   label   |-> SubSeq(line, n + 2, end - 1)])
        ELSE None

\* FlowchartParser._parse_node_definition
parse_node_definition(b, line) ==
    LET rect_match    == MatchNode(line, "[", "]")
        round_match   == MatchNode(line, "(", ")")
        diamond_match == MatchNode(line, "{", "}")
    IN  IF rect_match # None
        THEN add_node(b, rect_match[1].node_id, rect_match[1].label, "RECTANGLE")
        ELSE IF round_match # None
        THEN add_node(b, round_match[1].node_id, round_match[1].label, "ROUND_RECT")
        ELSE IF diamond_match # None
        THEN add_node(b, diamond_match[1].node_id, diamond_match[1].label, "RHOMBUS")
        ELSE b

\* str.replace(old, '')
Remove(s, old) == Join(Split(s, old), <<>>)

\* int(s) accepts s: an optional sign and decimal digits, after stripping
IsInt(s) ==
    LET t      == Strip(s)
        digits == IF t # <<>> /\ t[1] \in {"+", "-"} THEN Tail(t) ELSE t
    IN  digits # <<>> /\ \A i \in DOMAIN digits : digits[i] \in Digits

\* int(s) for a string of decimal digits
RECURSIVE DigitsValue(_)
DigitsValue(digits) ==
    LET value(c) == CHOOSE d \in 0..9 : IntToStr(d) = <<c>>
    IN  IF digits = <<>> THEN 0
        ELSE 10 * DigitsValue(SubSeq(digits, 1, Len(digits) - 1))
             + value(digits[Len(digits)])

\* int(s), for s that IsInt accepts
ParseInt(s) ==
    LET t == Strip(s)
    IN  IF t[1] = "-" THEN 0 - DigitsValue(Tail(t))
        ELSE IF t[1] = "+" THEN DigitsValue(Tail(t))
        ELSE DigitsValue(t)

\* FlowchartParser._parse_style_definition, the loop over style_str.split(','):
\* the style after the parts from k on, or the ValueError int() raised
RECURSIVE ParseStyleParts(_, _, _)
ParseStyleParts(style, style_parts, k) ==
    IF k > Len(style_parts) THEN Returned(style)
    ELSE
    LET style_part == style_parts[k]
        pair  == SplitMax(style_part, <<":">>, 1)
        prop  == Strip(pair[1])
        value == Strip(pair[2])
        width == Remove(value, <<"p", "x">>)
    IN  IF ~Contains(style_part, <<":">>)
        THEN ParseStyleParts(style, style_parts, k + 1)
        ELSE IF prop = <<"f", "i", "l", "l">>
        THEN ParseStyleParts([style EXCEPT !.fill_color = Some(value)],
                             style_parts, k + 1)
        ELSE IF prop = <<"s", "t", "r", "o", "k", "e">>
        THEN ParseStyleParts([style EXCEPT !.stroke_color = Some(value)],
                             style_parts, k + 1)
        ELSE IF prop = <<"s", "t", "r", "o", "k", "e", "-", "w", "i", "d", "t", "h">>
        THEN IF IsInt(width)
             THEN ParseStyleParts([style EXCEPT !.stroke_width = Some(ParseInt(width))],
                                  style_parts, k + 1)
             ELSE Raised("ValueError")
        ELSE IF prop = <<"c", "o", "l", "o", "r">>
        THEN ParseStyleParts([style EXCEPT !.color = Some(value)], style_parts, k + 1)
        ELSE ParseStyleParts(style, style_parts, k + 1)

\* FlowchartParser._parse_style_definition
parse_style_definition(b, line) ==
    LET parts == SplitMax(line, <<" ">>, 2)
        style == ParseStyleParts(NodeStyle(None, None, None, None, None, None),
                                 Split(parts[3], <<",">>), 1)
    IN  IF Len(parts) < 3 THEN Returned(b)
        ELSE IF style.raised # None THEN Raised(style.raised[1])
        ELSE Returned(style_node(b, parts[2], style.value))

\* FlowchartParser._parse_class_definition
parse_class_definition(b, line) ==
    LET parts == SplitMax(line, <<" ">>, 2)
    IN  IF Len(parts) >= 3 THEN add_css_class(b, parts[2], parts[3]) ELSE b

\* FlowchartParser._parse_click_action
parse_click_action(b, line) ==
    LET parts   == SplitMax(line, <<" ">>, 2)
        node_id == parts[2]
        action  == parts[3]
    IN  IF Len(parts) < 3 THEN b
        ELSE IF StartsWith(action, <<"h", "r", "e", "f">>)
        THEN IF SearchDelimited(action, "\"") # 0
             THEN add_href_link(b, node_id, DelimitedGroup(action, "\""),
                                SearchTooltip(action))
             ELSE b
        ELSE add_click_action(b, node_id, action)

\* FlowchartParser._parse_flowchart_line
parse_flowchart_line(b, line0) ==
    LET line == Strip(line0)
    IN  IF line = <<>> \/ StartsWith(line, <<"%", "%">>) THEN Returned(b)
        ELSE IF \E k \in DOMAIN ArrowType : Contains(line, ArrowValue(ArrowType[k]))
        THEN Returned(parse_connection(b, line))
        ELSE IF \E i \in DOMAIN line : line[i] \in {"[", "(", "{", ">"}
        THEN Returned(parse_node_definition(b, line))
        ELSE IF StartsWith(line, <<"s", "t", "y", "l", "e", " ">>)
        THEN parse_style_definition(b, line)
        ELSE IF StartsWith(line, <<"c", "l", "a", "s", "s", "D", "e", "f", " ">>)
        THEN Returned(parse_class_definition(b, line))
        ELSE IF StartsWith(line, <<"c", "l", "i", "c", "k", " ">>)
        THEN Returned(parse_click_action(b, line))
        ELSE Returned(b)

\* FlowchartParser.parse_string, the while loop from index i (one-based) on
RECURSIVE ParseLines(_, _, _)
ParseLines(b, lines, i) ==
    IF i > Len(lines) THEN Returned(b)
    ELSE
    LET line == lines[i]
        \* the front matter runs to the next '---', or to the end of the text
        closing == IF \E j \in (i + 1)..Len(lines) : lines[j] = <<"-", "-", "-">>
                   THEN Min({j \in (i + 1)..Len(lines) : lines[j] = <<"-", "-", "-">>})
                   ELSE Len(lines) + 1
        titles  == {j \in (i + 1)..(closing - 1) : StartsWith(lines[j], <<"t", "i",
              "t", "l", "e", ":">>)}
        last    == CHOOSE j \in titles : \A k \in titles : k <= j
        titled  == IF titles = {} THEN b
                   ELSE [b EXCEPT !.title = Some(Strip(From(lines[last], 7)))]
        direction_str == Strip(From(line, 11))
        parsed_line   == parse_flowchart_line(b, line)
    IN  IF StartsWith(line, <<"%", "%">>) THEN ParseLines(b, lines, i + 1)
        ELSE IF line = <<"-", "-", "-">> THEN ParseLines(titled, lines, closing + 1)
        ELSE IF StartsWith(line, <<"f", "l", "o", "w", "c", "h", "a", "r", "t", " ">>)
        THEN ParseLines(IF direction_str \in Direction
                        THEN set_direction(b, direction_str) ELSE b,
                        lines, i + 1)
        ELSE IF parsed_line.raised # None THEN parsed_line
        ELSE ParseLines(parsed_line.value, lines, i + 1)

\* FlowchartParser.parse_string: the builder, or the exception raised
parse_string(mermaid_code) ==
    ParseLines(FlowchartBuilder(None), StrippedLines(mermaid_code), 1)

-----------------------------------------------------------------------------
(* mermaid_generator.py: MermaidConfig, the renderers, MermaidGenerator.     *)
(* A Python value is a record of its type and its repr, so that a value of   *)
(* any type can sit in any field, as it can in the code.                     *)

Value(type, repr) == [type |-> type, repr |-> repr]

\* class OutputFormat(Enum): member name -> value
OutputFormat == [PNG |-> "png", SVG |-> "svg", PDF |-> "pdf", JPEG |-> "jpeg"]

\* class MermaidTheme(Enum): member name -> value
MermaidTheme ==
    [DEFAULT |-> "default", FOREST |-> "forest", DARK |-> "dark",
     NEUTRAL |-> "neutral", BASE |-> "base"]

\* the fields of the dataclass MermaidConfig
ConfigFields ==
    {"theme", "output_format", "width", "height", "background_color", "scale",
     "font_size", "animation", "custom_css", "output_dir"}

\* the names hasattr() finds on a MermaidConfig: its fields, and what the
\* class defines or inherits (one method stands for those)
ConfigAttributes == ConfigFields \cup {"__post_init__"}

\* MermaidConfig(): the defaults
MermaidConfig ==
    [a \in ConfigAttributes |->
        CASE a = "theme"            -> Value("MermaidTheme", "DEFAULT")
          [] a = "output_format"    -> Value("OutputFormat", "PNG")
          [] a = "width"            -> Value("int", "800")
          [] a = "height"           -> Value("int", "600")
          [] a = "background_color" -> Value("str", "white")
          [] a = "scale"            -> Value("float", "1.0")
          [] a = "font_size"        -> Value("int", "16")
          [] a = "animation"        -> Value("bool", "False")
          [] a = "custom_css"       -> Value("NoneType", "None")
          [] a = "output_dir"       -> Value("Path", "./output")
          [] a = "__post_init__"    -> Value("method", "__post_init__")]

\* the value of a field is one its annotation allows
ValidFor(field, value) ==
    CASE field = "theme" ->
            value.type = "MermaidTheme" /\ value.repr \in DOMAIN MermaidTheme
      [] field = "output_format" ->
            value.type = "OutputFormat" /\ value.repr \in DOMAIN OutputFormat
      [] field \in {"width", "height", "font_size"} -> value.type = "int"
      [] field = "background_color" -> value.type = "str"
      [] field = "scale" -> value.type = "float"
      [] field = "animation" -> value.type = "bool"
      [] field = "custom_css" -> value.type \in {"str", "NoneType"}
      [] field = "output_dir" -> value.type = "Path"
      [] OTHER -> FALSE

\* the file system as far as generate touches it: MermaidConfig.__post_init__
\* has made the output directory
NoDisk == [dirs |-> {}, files |-> {}]
ConfigDisk == [dirs |-> {"./output"}, files |-> {}]

\* PlaywrightMermaidRenderer() / OnlineMermaidRenderer(): page, browser and
\* playwright say whether the handle is set (TRUE) or None; starts counts the
\* calls of _initialize_browser
Renderer(kind) ==
    [kind |-> kind, page |-> FALSE, browser |-> FALSE, playwright |-> FALSE,
     starts |-> 0]

\* PlaywrightMermaidRenderer._cleanup; stuck holds the handles whose close()
\* (stop() for playwright) raises.  Each handle is released in a try block of
\* its own, and set to None after its release returned
cleanup(renderer, stuck) ==
    [renderer EXCEPT !.page       = @ /\ "page" \in stuck,
                     !.browser    = @ /\ "browser" \in stuck,
                     !.playwright = @ /\ "playwright" \in stuck]

\* PlaywrightMermaidRenderer._initialize_browser; started is whether
\* chromium.launch came back with a browser (playwright is running by then)
initialize_browser(renderer, started, stuck) ==
    LET entered == [renderer EXCEPT !.starts = @ + 1, !.playwright = TRUE]
    IN  IF started
        THEN [renderer |-> [entered EXCEPT !.browser = TRUE, !.page = TRUE],
              raised   |-> None]
        ELSE [renderer |-> cleanup(entered, stuck),
              raised   |-> Some("MermaidGenerationError")]

\* renderer.validate_syntax(mermaid_code); html is whether
\* _render_mermaid_html, with the MermaidConfig() it constructs, went through
validate_syntax(renderer, mermaid_code, html) ==
    IF renderer.kind = "Playwright" THEN html
    ELSE Len(Strip(mermaid_code)) > 0

\* renderer.render whose failure is raised as it came
render_unwrapped(renderer, rendered) ==
    IF renderer.kind = "Playwright" /\ ~renderer.page
    THEN Raised("MermaidGenerationError")
    ELSE IF rendered THEN Returned("image_data")
    ELSE Raised("TimeoutError")

\* renderer.render(mermaid_code, config); rendered is whether the browser
\* (the online service) delivered the image
render(renderer, rendered) ==
    IF renderer.kind = "Playwright" /\ ~renderer.page
    THEN Raised("MermaidGenerationError")
    ELSE IF rendered THEN Returned("image_data")
    ELSE Raised("MermaidGenerationError")

\* MermaidGenerator(renderer)
MermaidGenerator(kind) ==
    [renderer |-> Renderer(kind),
     config   |-> MermaidConfig,
     history  |-> <<>>]

\* MermaidGenerator.set_config that skips a key it does not know
set_config_ignoring(g, kwargs) ==
    LET Known(i) == kwargs[i].key \in ConfigAttributes
        Last(a)  == CHOOSE i \in DOMAIN kwargs :
                        /\ kwargs[i].key = a
                        /\ \A j \in DOMAIN kwargs : kwargs[j].key = a => j <= i
        config   == [a \in ConfigAttributes |->
                        IF \E i \in DOMAIN kwargs : kwargs[i].key = a
                        THEN kwargs[Last(a)].value
                        ELSE g.config[a]]
    IN  [generator |-> [g EXCEPT !.config = config], raised |-> None]

\* MermaidGenerator.set_config(**kwargs): the keyword arguments in the order
\* given, no key twice; the generator after the call, and the ValueError
\* when a key is no attribute of the config
set_config(g, kwargs) ==
    LET Known(i) == kwargs[i].key \in ConfigAttributes
        unknown  == {i \in DOMAIN kwargs : ~Known(i)}
        stop     == IF unknown = {} THEN Len(kwargs) + 1
                    ELSE CHOOSE i \in unknown : \A j \in unknown : i <= j
        config   == [a \in ConfigAttributes |->
                        IF \E i \in 1..(stop - 1) : kwargs[i].key = a
                        THEN (CHOOSE e \in {kwargs[i] : i \in 1..(stop - 1)} :
                                e.key = a).value
                        ELSE g.config[a]]
    IN  [generator |-> [g EXCEPT !.config = config],
         raised    |-> IF unknown = {} THEN None ELSE Some("ValueError")]

\* MermaidGenerator.set_output_format
set_output_format(g, format) ==
    [g EXCEPT !.config = [@ EXCEPT !["output_format"] = Value("OutputFormat", format)]]

\* pathlib.Path: the parent directory and the name
Path(parent, name) == [parent |-> parent, name |-> name]

\* MermaidGenerator.generate(mermaid_code, output_file) on a generator whose
\* config holds members of the two enums.  fails is the step the surroundings
\* let fail, if the call gets there: "mkdir" (the directory cannot be made),
\* "start" (the browser does not come up), "html" (_render_mermaid_html
\* raises), "render" (the image is not delivered), "write" (the file cannot be
\* written), "page", "browser" or "playwright" (releasing that handle raises
\* in _cleanup), or "nothing".  The timestamp in the default file name and the two
\* clock readings of a history entry are left out; an entry of a success has
\* no 'error' key, None here.
generate(g, d, mermaid_code, output_file, fails) ==
    LET env    == [mkdir |-> fails # "mkdir", started |-> fails # "start",
                   html |-> fails # "html", rendered |-> fails # "render",
                   written |-> fails # "write"]
        format == OutputFormat[g.config["output_format"].repr]
        theme  == MermaidTheme[g.config["theme"].repr]
        path   == IF output_file # None THEN output_file[1]
                  ELSE Path(g.config["output_dir"].repr, <<"mermaid_", format>>)
        made   == [d EXCEPT !.dirs = @ \cup {path.parent}]
        Entry(error) ==
            [output_file |-> path, format |-> format, theme |-> theme,
             success |-> error = None, error |-> error]
        \* the except clause: record the failed generation and re-raise
        Failed(renderer, error) ==
            [generator |-> [g EXCEPT !.renderer = renderer,
                                     !.history = Append(@, Entry(Some(error)))],
             disk      |-> made,
             outcome   |-> Raised(error)]
        playwright == g.renderer.kind = "Playwright"
        \* async with self.renderer as renderer
        entered  == IF playwright
                    THEN initialize_browser(g.renderer, env.started, {fails})
                    ELSE [renderer |-> g.renderer, raised |-> None]
        \* __aexit__
        left     == IF playwright THEN cleanup(entered.renderer, {fails})
                    ELSE entered.renderer
        image    == render(entered.renderer, env.rendered)
    IN  IF Strip(mermaid_code) = <<>>
        THEN [generator |-> g, disk |-> d, outcome |-> Raised("MermaidSyntaxError")]
        ELSE IF ~env.mkdir
        THEN [generator |-> g, disk |-> d, outcome |-> Raised("OSError")]
        ELSE IF entered.raised # None
        THEN Failed(entered.renderer, entered.raised[1])
        ELSE IF ~validate_syntax(entered.renderer, mermaid_code, env.html)
        THEN Failed(left, "MermaidSyntaxError")
        ELSE IF image.raised # None
        THEN Failed(left, image.raised[1])
        ELSE IF ~env.written
        THEN Failed(left, "OSError")
        ELSE [generator |-> [g EXCEPT !.renderer = left,
                                      !.history = Append(@, Entry(None))],
              disk      |-> [made EXCEPT !.files = @ \cup {path}],
              outcome   |-> Returned(path)]

----------------------------------------------------------------------------
(* The calls on a FlowchartBuilder and on its SubgraphContainers.  A mutator *)
(* returns the builder itself, so ret is None after it.                      *)

\* the part of the state a call on the builder leaves alone
Untouched == UNCHANGED <<validator, parsed, node, generator, disk>>

\* a mutator of the builder or of a subgraph has returned self
Mutated(op, input) ==
    /\ calls < MaxCalls
    /\ calls' = calls + 1
    /\ lastOp' = op
    /\ arg' = input
    /\ ret' = None
    /\ prev' = None
    /\ Untouched

\* builder.set_direction(direction)
SetDirection(direction) ==
    /\ builder' = set_direction(builder, direction)
    /\ UNCHANGED heap
    /\ Mutated("mutator", None)

\* builder.add_node(node_id, label, shape), also reached through
\* add_decision_node, add_process_node and add_start_end_node
\* (prev keeps the node map as it was before the call)
AddNode(node_id, label, shape) ==
    /\ calls < MaxCalls
    /\ calls' = calls + 1
    /\ builder' = add_node(builder, node_id, label, shape)
    /\ lastOp' = "add_node"
    /\ arg' = [node_id |-> node_id, label |-> label, shape |-> shape]
    /\ ret' = None
    /\ prev' = Some(builder.nodes)
    /\ UNCHANGED heap
    /\ Untouched

\* builder.connect(from_node, to_node, arrow_type, label), also reached through
\* connect_with_label
Connect(from_node, to_node, arrow_type, label) ==
    /\ builder' = connect(builder, from_node, to_node, arrow_type, label)
    /\ UNCHANGED heap
    /\ Mutated("mutator", None)

\* builder.add_subgraph(subgraph_id, title): the new container is on the heap
\* and in builder.subgraphs
AddSubgraph(subgraph_id, title) ==
    /\ heap' = Append(heap, SubgraphContainer(subgraph_id, title))
    /\ builder' = [builder EXCEPT !.subgraphs = Append(@, Len(heap) + 1)]
    /\ Mutated("mutator", None)

\* subgraph.add_node(node) on the container `ref`
SubgraphAddNode(ref, n) ==
    /\ ref \in DOMAIN heap
    /\ heap' = [heap EXCEPT ![ref].nodes = Append(@, n)]
    /\ UNCHANGED builder
    /\ Mutated("mutator", None)

\* subgraph.add_connection(connection) on the container `ref`
SubgraphAddConnection(ref, c) ==
    /\ ref \in DOMAIN heap
    /\ heap' = [heap EXCEPT ![ref].connections = Append(@, c)]
    /\ UNCHANGED builder
    /\ Mutated("mutator", None)

\* subgraph.add_subgraph(child) on the container `ref`
SubgraphAddSubgraph(ref, child) ==
    /\ ref \in DOMAIN heap
    /\ child \in DOMAIN heap
    /\ heap' = [heap EXCEPT ![ref].nested_subgraphs = Append(@, child)]
    /\ UNCHANGED builder
    /\ Mutated("mutator", None)

\* builder.style_node(node_id, style)
StyleNode(node_id, style) ==
    /\ builder' = style_node(builder, node_id, style)
    /\ UNCHANGED heap
    /\ Mutated("mutator", None)

\* builder.add_css_class(class_name, css_definition)
AddCssClass(class_name, css_definition) ==
    /\ builder' = add_css_class(builder, class_name, css_definition)
    /\ UNCHANGED heap
    /\ Mutated("mutator", None)

\* builder.apply_css_class(node_id, class_name)
ApplyCssClass(node_id, class_name) ==
    /\ builder' = apply_css_class(builder, node_id, class_name)
    /\ UNCHANGED heap
    /\ Mutated("mutator", None)

\* builder.add_click_action(node_id, action)
AddClickAction(node_id, action) ==
    /\ builder' = add_click_action(builder, node_id, action)
    /\ UNCHANGED heap
    /\ Mutated("mutator", None)

\* builder.add_href_link(node_id, url, tooltip)
AddHrefLink(node_id, url, tooltip) ==
    /\ builder' = add_href_link(builder, node_id, url, tooltip)
    /\ UNCHANGED heap
    /\ Mutated("mutator", None)

\* builder.build() that also drops the title
BuildDroppingTitle ==
    /\ ret' = build(builder, heap)
    /\ prev' = IF lastOp = "build" THEN Some(ret) ELSE None
    /\ lastOp' = "build"
    /\ arg' = None
    /\ builder' = [builder EXCEPT !.title = None]
    /\ UNCHANGED <<heap, calls>>
    /\ Untouched

\* builder.build(): ret is the document (or the exception), prev what the
\* build() directly before this one returned
Build ==
    /\ ret' = build(builder, heap)
    /\ prev' = IF lastOp = "build" THEN Some(ret) ELSE None
    /\ lastOp' = "build"
    /\ arg' = None
    /\ UNCHANGED <<builder, heap, calls>>
    /\ Untouched

----------------------------------------------------------------------------
(* Spec: a builder is constructed, mutated and built *)

Shapes == {"RECTANGLE", "STADIUM"}

EmptyStyle == NodeStyle(None, None, None, None, None, None)

RedStyle == NodeStyle(Some(<<"r", "e", "d">>), None, None, None, None, None)

Init ==
    \* no title, the empty title and a title
    /\ \E title \in {None, Some(<<>>), Some(<<"T">>)} : builder = FlowchartBuilder(title)
    /\ heap = <<>>
    /\ validator = FlowchartValidator
    /\ parsed = None
    /\ node = None
    /\ arg = None
    /\ ret = None
    /\ prev = None
    /\ lastOp = "init"
    /\ calls = 0
    /\ generator = None
    /\ disk = NoDisk

Next ==
    \/ \E d \in {<<"L", "R">>} : SetDirection(d)
    \* "b-" and "b_" sanitize to the same id
    \/ \E id \in {<<"a">>, <<"b", "-">>, <<"b", "_">>}, shape \in Shapes : AddNode(id, <<"x">>, shape)
    \/ \E label \in {None, Some(<<"y">>)} :
          Connect(<<"a">>, <<"b", "_">>, "ARROW", label)
    \/ AddSubgraph(<<"s">>, None)
    \* a node for a subgraph, taken from a throw-away builder as main.py does
    \/ \E ref \in DOMAIN heap : SubgraphAddNode(ref,
          DictGet(add_node(FlowchartBuilder(None), <<"m">>, <<"M">>, "RECTANGLE").nodes,
          <<"m">>))
    \/ \E ref \in DOMAIN heap :
          SubgraphAddConnection(ref,
              FlowchartConnection(<<"m">>, <<"a">>, "THICK_ARROW", None))
    \/ \E ref, child \in DOMAIN heap : SubgraphAddSubgraph(ref, child)
    \/ \E style \in {EmptyStyle, RedStyle} : StyleNode(<<"a">>, style)
    \/ AddCssClass(<<"c">>, <<"f", "i", "l", "l", ":", "r", "e", "d">>)
    \/ ApplyCssClass(<<"a">>, <<"c">>)
    \/ AddClickAction(<<"a">>, <<"c", "b">>)
    \/ AddHrefLink(<<"a">>, <<"u">>, None)
    \/ Build

Spec == Init /\ [][Next]_vars

\* C3: after any sequence of mutator calls every key of builder.nodes is a
\* sanitized id and equals the node_id of its node, so no two nodes share an
\* id; add_node with an id whose sanitized form is already a key replaces that
\* entry with the new node and leaves the number of nodes as it was.
C3_NodeMap ==
    LET nodes  == builder.nodes
        before == prev[1]
        key    == SanitizeId(arg.node_id)
    IN  /\ \A i \in DOMAIN nodes :
              /\ nodes[i].key = nodes[i].value.node_id
              /\ nodes[i].key = SanitizeId(nodes[i].key)
              /\ nodes[i].key # <<>>
              /\ \A k \in DOMAIN nodes[i].key : nodes[i].key[k] \in IdChars
        /\ \A i, j \in DOMAIN nodes : nodes[i].key = nodes[j].key => i = j
        /\ lastOp = "add_node" =>
              /\ DictHas(nodes, key)
              /\ DictGet(nodes, key) = FlowchartNode(arg.node_id, arg.label, arg.shape)
              /\ DictHas(before, key) =>
                    /\ Len(nodes) = Len(before)
                    /\ DictKeys(nodes) = DictKeys(before)
                    /\ \A i \in DOMAIN before :
                          before[i].key # key => nodes[i] = before[i]

\* add_node('b-', ...) on a builder that holds the key 'b_' with another shape
C3_Witness ==
    /\ lastOp = "add_node"
    /\ arg.node_id = <<"b", "-">>
    /\ DictHas(prev[1], <<"b", "_">>)
    /\ DictGet(prev[1], <<"b", "_">>).shape # arg.shape
    /\ Len(builder.nodes) = 2
    /\ DictGet(builder.nodes, <<"b", "_">>).shape = arg.shape

\* C4: build() emits the front matter (only when a title is set), then the
\* flowchart line, then the root nodes in insertion order, then the subgraphs
\* in insertion order, then the connections in insertion order, then the
\* classDef lines, then the style lines of the styles whose CSS is not empty,
\* then the click lines; no line of a later group precedes a line of an
\* earlier one.
C4_GroupOrder ==
    lastOp = "build" /\ ret.raised = None =>
        LET lines == Split(ret.value, <<"\n">>)
            IsArrow(line) ==
                \E k \in DOMAIN ArrowType : Contains(line, ArrowValue(ArrowType[k]))
            Group(line) ==
                IF line = <<"-", "-", "-">> \/ StartsWith(line, <<"t", "i", "t", "l",
                                                 "e", ":", " ">>) THEN 1
                ELSE IF StartsWith(line, <<"f", "l", "o", "w", "c", "h", "a", "r", "t",
                                           " ">>) THEN 2
                ELSE IF \/ StartsWith(line, <<" ", " ", " ", " ", " ", " ", " ", " ">>)
                        \/ StartsWith(line, <<" ", " ", " ", " ", "s", "u", "b", "g",
                             "r", "a", "p", "h", " ">>)
                        \/ line = <<" ", " ", " ", " ", "e", "n", "d">> THEN 4
                ELSE IF StartsWith(line, <<" ", " ", " ", " ", "c", "l", "a", "s", "s",
                                           "D", "e", "f", " ">>) THEN 6
                ELSE IF StartsWith(line, <<" ", " ", " ", " ", "s", "t", "y", "l", "e",
                                           " ">>) THEN 7
                ELSE IF StartsWith(line, <<" ", " ", " ", " ", "c", "l", "i", "c", "k",
                                           " ">>) THEN 8
                ELSE IF IsArrow(line) THEN 5
                ELSE 3
            groups == Flatten([i \in DOMAIN lines |-> <<Group(lines[i])>>])
            \* the lines of group g: a block, since the groups are in order
            Of(g) ==
                LET earlier == Cardinality({i \in DOMAIN lines : groups[i] < g})
                    here    == Cardinality({i \in DOMAIN lines : groups[i] = g})
                IN  SubSeq(lines, earlier + 1, earlier + here)
            styled == {i \in DOMAIN builder.styles :
                          to_css(builder.styles[i].value) # <<>>}
            subgraphs == Flatten([i \in DOMAIN builder.subgraphs |->
                Split(SubgraphToMermaid(heap, builder.subgraphs[i], 1, {}).value,
                      <<"\n">>)])
        IN  /\ \A i, j \in DOMAIN groups : i < j => groups[i] <= groups[j]
            /\ Of(1) # <<>> => Truthy(builder.title)
            /\ Truthy(builder.title) =>
                  Of(1) = <<<<"-", "-", "-">>,
                            <<"t", "i", "t", "l", "e", ":", " ">> \o builder.title[1],
                            <<"-", "-", "-">>>>
            /\ Of(2) = <<<<"f", "l", "o", "w", "c", "h", "a", "r", "t", " ">>
                           \o builder.direction>>
            /\ Of(3) = [i \in DOMAIN builder.nodes |->
                          <<" ", " ", " ", " ">>
                            \o NodeToMermaid(builder.nodes[i].value)]
            /\ Of(4) = subgraphs
            /\ Of(5) = [i \in DOMAIN builder.connections |->
                          <<" ", " ", " ", " ">>
                            \o ConnectionToMermaid(builder.connections[i])]
            /\ Len(Of(6)) = Len(builder.css_classes)
            /\ Len(Of(7)) = Cardinality(styled)
            /\ Len(Of(8)) = Len(builder.click_actions) + Len(builder.href_links)

\* a document with a title, a root node, a subgraph and a connection
C4_Witness ==
    /\ lastOp = "build"
    /\ ret.raised = None
    /\ Truthy(builder.title)
    /\ Len(builder.nodes) = 1
    /\ Len(builder.subgraphs) = 1
    /\ Len(builder.connections) = 1
    /\ Len(builder.styles) = 1
    /\ Len(Split(ret.value, <<"\n">>)) = 9

C26_BuildNeverRaises == lastOp = "build" => ret.raised = None

\* C27: the two style records agree.  After any sequence of add_node and
\* style_node calls, for every ID that is a key of both builder.nodes and
\* builder.styles, builder.nodes[id].style is the same style as
\* builder.styles[id], also when add_node for that ID comes after style_node
\* or re-adds an already styled node.
C27_StyleRecordsAgree ==
    \A id \in DictKeys(builder.nodes) \cap DictKeys(builder.styles) :
        DictGet(builder.nodes, id).style = Some(DictGet(builder.styles, id))

----------------------------------------------------------------------------
(* SpecValidate: a FlowchartValidator validates the builder as it grows      *)

\* the lists of the validator, as a call leaves them
Lists(r) == [errors |-> r.errors, warnings |-> r.warnings]

\* is_valid = validator.validate_builder(builder); prev keeps the lists the call
\* found in the validator
ValidateBuilder ==
    LET r == validate_builder(validator, builder)
    IN  /\ validator' = Lists(r)
        /\ ret' = r.result
        /\ prev' = Some(validator)
        /\ lastOp' = "validate_builder"
        /\ arg' = None
        /\ UNCHANGED <<builder, heap, parsed, node, calls, generator, disk>>

\* is_valid = validator.validate_mermaid_syntax(mermaid_code)
ValidateMermaidSyntax(mermaid_code) ==
    LET r == validate_mermaid_syntax(validator, mermaid_code)
    IN  /\ validator' = Lists(r)
        /\ ret' = r.result
        /\ prev' = Some(validator)
        /\ lastOp' = "validate_mermaid_syntax"
        /\ arg' = mermaid_code
        /\ UNCHANGED <<builder, heap, parsed, node, calls, generator, disk>>

\* documents that take validate_mermaid_syntax down each of its returns
Documents ==
    {<<>>,
     <<"h", "e", "l", "l", "o">>,
     <<"f", "l", "o", "w", "c", "h", "a", "r", "t", " ", "T", "D", "\n", " ", " ", " ",
       " ", "A", " ", "-", "-", ">", " ", "B">>,
     <<"f", "l", "o", "w", "c", "h", "a", "r", "t", " ", "X", "X", "\n", " ", " ", " ",
       " ", "A", " ", "-", "-", ">", " ", "B", " ", "-", "-", ">", " ", "C">>,
     <<"A", " ", "-", "-", ">", " ", "B">>,
     <<"p", "i", "e", " ", "t", "i", "t", "l", "e", " ", "P", "\n", " ", " ", " ", " ",
       "\"", "A", "\"", " ", ":", " ", "1">>,
     <<"p", "i", "e", "\n", " ", " ", " ", " ", "n", "o", "t", "h", "i", "n", "g">>,
     <<"q", "u", "a", "d", "r", "a", "n", "t", "C", "h", "a", "r", "t", "\n", " ", " ",
       " ", " ", "x", "-", "a", "x", "i", "s", " ", "L", " ", "-", "-", ">", " ", "H",
       "\n", " ", " ", " ", " ", "y", "-", "a", "x", "i", "s", " ", "L", " ", "-", "-",
       ">", " ", "H">>,
     <<"q", "u", "a", "d", "r", "a", "n", "t", "C", "h", "a", "r", "t", "\n", " ", " ",
       " ", " ", "t", "i", "t", "l", "e", " ", "Q">>,
     <<"g", "a", "n", "t", "t", "\n", " ", " ", " ", " ", "a", "n", "y", "t", "h", "i",
       "n", "g">>}

InitValidate ==
    /\ builder = FlowchartBuilder(None)
    /\ heap = <<>>
    /\ validator = FlowchartValidator
    /\ parsed = None
    /\ node = None
    /\ arg = None
    /\ ret = None
    /\ prev = None
    /\ lastOp = "init"
    /\ calls = 0
    /\ generator = None
    /\ disk = NoDisk

NextValidate ==
    \/ \E id \in {<<"a">>, <<"b">>, <<"c">>}, shape \in Shapes : AddNode(id, <<"x">>, shape)
    \/ \E from_node, to_node \in {<<"a">>, <<"b">>} :
          Connect(from_node, to_node, "ARROW", None)
    \/ AddSubgraph(<<"s">>, None)
    \/ StyleNode(<<"a">>, RedStyle)
    \/ ValidateBuilder

SpecValidate == InitValidate /\ [][NextValidate]_vars

\* C8: for a builder with at least one node, validate_builder adds one error
\* per connection endpoint that is not a key of the node map, saying 'unknown
\* source node' for a missing from-endpoint and 'unknown target node' for a
\* missing to-endpoint and naming the missing id; it returns False whenever
\* there is such an endpoint and adds no such error when there is none.
C8_DanglingReferences ==
    lastOp = "validate_builder" /\ builder.nodes # <<>> =>
        LET conns    == builder.connections
            node_ids == DictKeys(builder.nodes)
            errors   == validator.errors
            ids      == {conns[i].from_node : i \in DOMAIN conns}
                        \cup {conns[i].to_node : i \in DOMAIN conns}
            \* the errors that say `side` and end with the id
            Naming(side, id) ==
                {k \in DOMAIN errors :
                    /\ Contains(errors[k].text, <<"u", "n", "k", "n", "o", "w", "n", " ">> \o side \o <<" ",
                         "n", "o", "d", "e">>)
                    /\ Len(errors[k].text) >= Len(id)
                    /\ From(errors[k].text, Len(errors[k].text) - Len(id) + 1) = id}
            MissingFrom(id) ==
                {i \in DOMAIN conns : conns[i].from_node = id /\ id \notin node_ids}
            MissingTo(id) ==
                {i \in DOMAIN conns : conns[i].to_node = id /\ id \notin node_ids}
            missing == Cardinality({i \in DOMAIN conns : conns[i].from_node \notin node_ids})
                       + Cardinality({i \in DOMAIN conns : conns[i].to_node \notin node_ids})
        IN  /\ \A id \in ids :
                  /\ Cardinality(Naming(<<"s", "o", "u", "r", "c", "e">>, id)) = Cardinality(MissingFrom(id))
                  /\ Cardinality(Naming(<<"t", "a", "r", "g", "e", "t">>, id)) = Cardinality(MissingTo(id))
            /\ Cardinality({k \in DOMAIN errors :
                               Contains(errors[k].text, <<"u", "n", "k", "n", "o", "w",
                                     "n", " ">>)}) = missing
            /\ missing > 0 => ret = FALSE

\* one node, and a connection whose two endpoints are both missing
C8_Witness ==
    /\ lastOp = "validate_builder"
    /\ DictKeys(builder.nodes) = {<<"c">>}
    /\ Len(builder.connections) = 1
    /\ builder.connections[1].from_node = <<"a">>
    /\ builder.connections[1].to_node = <<"b">>
    /\ Len(validator.errors) = 2
    /\ ret = FALSE

\* C9: validate_builder on a builder whose node map is empty returns False with
\* exactly one error, which mentions 'must contain at least one node', and
\* with no warnings, whatever connections, subgraphs or styles it holds.
C9_EmptyBuilder ==
    lastOp = "validate_builder" /\ builder.nodes = <<>> =>
        /\ ret = FALSE
        /\ Len(validator.errors) = 1
        /\ Contains(validator.errors[1].text, <<"m", "u", "s", "t", " ", "c", "o", "n",
             "t", "a", "i", "n", " ", "a", "t", " ", "l", "e", "a", "s", "t", " ", "o",
             "n", "e", " ", "n", "o", "d", "e">>)
        /\ validator.warnings = <<>>

\* no node, but a connection, a subgraph and a style
C9_Witness ==
    /\ lastOp = "validate_builder"
    /\ builder.nodes = <<>>
    /\ builder.connections # <<>>
    /\ builder.subgraphs # <<>>
    /\ builder.styles # <<>>
    /\ ret = FALSE

\* C10: for a builder with at least one node, validate_builder adds exactly one
\* 'Isolated nodes found' warning, listing exactly the node-map keys that are
\* no endpoint of any connection, and none when there is no such key; three
\* nodes with one connection between two of them validate True with no errors
\* and exactly one warning, which lists the third node.
C10_IsolatedNodes ==
    lastOp = "validate_builder" /\ builder.nodes # <<>> =>
        LET conns     == builder.connections
            node_ids  == DictKeys(builder.nodes)
            endpoints == {conns[i].from_node : i \in DOMAIN conns}
                         \cup {conns[i].to_node : i \in DOMAIN conns}
            isolated  == node_ids \ endpoints
            IsIsolated(msg) == Contains(msg.text, <<"I", "s", "o", "l", "a", "t", "e",
                  "d", " ", "n", "o", "d", "e", "s", " ", "f", "o", "u", "n", "d">>)
            found     == SelectSeq(validator.warnings, IsIsolated)
        IN  /\ isolated # {} => Len(found) = 1 /\ found[1].names = isolated
            /\ isolated = {} => found = <<>>
            /\ \A k \in DOMAIN validator.warnings :
                  ~IsIsolated(validator.warnings[k]) => validator.warnings[k].names = {}
            /\ (/\ Cardinality(node_ids) = 3
                /\ Len(conns) = 1
                /\ conns[1].from_node # conns[1].to_node
                /\ {conns[1].from_node, conns[1].to_node} \subseteq node_ids)
               => /\ ret = TRUE
                  /\ validator.errors = <<>>
                  /\ Len(validator.warnings) = 1
                  /\ validator.warnings[1].names = node_ids \ endpoints
                  /\ Cardinality(validator.warnings[1].names) = 1

\* the nodes a, b and c with the one connection a --> b
C10_Witness ==
    /\ lastOp = "validate_builder"
    /\ DictKeys(builder.nodes) = {<<"a">>, <<"b">>, <<"c">>}
    /\ Len(builder.connections) = 1
    /\ builder.connections[1].from_node = <<"a">>
    /\ builder.connections[1].to_node = <<"b">>
    /\ ret = TRUE
    /\ Len(validator.warnings) = 1
    /\ validator.warnings[1].names = {<<"c">>}

\* C25: start/end inference depends only on connection topology.  For a
\* builder with at least one node, validate_builder adds the 'No clear start
\* node' warning exactly when no ID occurs as a connection source without also
\* occurring as a target, and the 'No clear end node' warning exactly when no
\* ID occurs as a target without also occurring as a source, whatever the
\* shapes of the nodes; a builder with nodes and no connections, or whose
\* connections form a cycle, gets both.
C25_StartEndByTopology ==
    lastOp = "validate_builder" /\ builder.nodes # <<>> =>
        LET conns       == builder.connections
            IsSource(x) == \E i \in DOMAIN conns : conns[i].from_node = x
            IsTarget(x) == \E i \in DOMAIN conns : conns[i].to_node = x
            ids         == {conns[i].from_node : i \in DOMAIN conns}
                           \cup {conns[i].to_node : i \in DOMAIN conns}
            NoStart(msg) == StartsWith(msg.text, <<"N", "o", " ", "c", "l", "e", "a",
                  "r", " ", "s", "t", "a", "r", "t", " ", "n", "o", "d", "e">>)
            NoEnd(msg)   == StartsWith(msg.text, <<"N", "o", " ", "c", "l", "e", "a",
                  "r", " ", "e", "n", "d", " ", "n", "o", "d", "e">>)
            starts      == Len(SelectSeq(validator.warnings, NoStart))
            ends        == Len(SelectSeq(validator.warnings, NoEnd))
            cycle       == /\ conns # <<>>
                           /\ \A i \in DOMAIN conns :
                                 IsTarget(conns[i].from_node) /\ IsSource(conns[i].to_node)
        IN  /\ starts = (IF \E x \in ids : IsSource(x) /\ ~IsTarget(x) THEN 0 ELSE 1)
            /\ ends = (IF \E x \in ids : IsTarget(x) /\ ~IsSource(x) THEN 0 ELSE 1)
            /\ (conns = <<>> \/ cycle) => starts = 1 /\ ends = 1

\* a stadium node a and a rectangle b on the cycle a --> b --> a: both
\* warnings, and validate_builder returns True
C25_Witness ==
    /\ lastOp = "validate_builder"
    /\ DictHas(builder.nodes, <<"a">>)
    /\ DictGet(builder.nodes, <<"a">>).shape = "STADIUM"
    /\ Len(builder.connections) = 2
    /\ builder.connections[1].from_node = <<"a">>
    /\ builder.connections[1].to_node = <<"b">>
    /\ builder.connections[2].from_node = <<"b">>
    /\ builder.connections[2].to_node = <<"a">>
    /\ Len(validator.warnings) = 2
    /\ ret = TRUE

\* a stadium node and no connection: both warnings
C25_WitnessNoConnections ==
    /\ lastOp = "validate_builder"
    /\ Len(builder.nodes) = 1
    /\ builder.nodes[1].value.shape = "STADIUM"
    /\ builder.connections = <<>>
    /\ Len(validator.warnings) = 3

----------------------------------------------------------------------------
(* SpecReuse: one FlowchartValidator validates a small builder and          *)
(* documents, in any order and any number of times                           *)

NextReuse ==
    \/ \E id \in {<<"a">>, <<"b">>} : AddNode(id, <<"x">>, "RECTANGLE")
    \/ Connect(<<"a">>, <<"b">>, "ARROW", None)
    \/ ValidateBuilder
    \/ \E mermaid_code \in Documents : ValidateMermaidSyntax(mermaid_code)

SpecReuse == InitValidate /\ [][NextReuse]_vars

\* C6: for validate_builder and validate_mermaid_syntax and every input, the
\* returned boolean is True exactly when the errors list is empty as the call
\* returns; the warnings do not change it.
C6_ResultIffNoErrors ==
    lastOp \in {"validate_builder", "validate_mermaid_syntax"} =>
        /\ ret \in BOOLEAN
        /\ ret <=> validator.errors = <<>>

\* validate_builder returns True while it leaves warnings
C6_Witness ==
    /\ lastOp = "validate_builder"
    /\ ret = TRUE
    /\ validator.errors = <<>>
    /\ validator.warnings # <<>>

\* validate_mermaid_syntax returns True while it leaves warnings
C6_WitnessSyntax ==
    /\ lastOp = "validate_mermaid_syntax"
    /\ ret = TRUE
    /\ validator.errors = <<>>
    /\ validator.warnings # <<>>

\* C7: for any sequence of validate_builder / validate_mermaid_syntax calls on
\* one FlowchartValidator, the errors and warnings after each call are those a
\* freshly constructed validator produces for that call's input alone.
C7_NoCarryOver ==
    /\ lastOp = "validate_builder" =>
          validator = Lists(validate_builder(FlowchartValidator, builder))
    /\ lastOp = "validate_mermaid_syntax" =>
          validator = Lists(validate_mermaid_syntax(FlowchartValidator, arg))

\* a call that found no error, on a validator that held errors and warnings
C7_Witness ==
    /\ lastOp = "validate_builder"
    /\ prev[1].errors # <<>>
    /\ prev[1].warnings # <<>>
    /\ validator.errors = <<>>
    /\ validator.warnings = <<>>

----------------------------------------------------------------------------
(* SpecEndpoints: add_node(s, label), then connect with s as it was given or *)
(* with its sanitized form, then validate_builder.  The label is s, so the   *)
(* node keeps the identifier the caller wrote.                               *)

NextEndpoints ==
    \/ \E s \in StringsUpTo({"a", "1", "-"}, MaxIdLen) :
          /\ lastOp = "init"
          /\ AddNode(s, s, "RECTANGLE")
    \/ /\ lastOp = "add_node"
       /\ \E f \in {builder.nodes[1].value.label, builder.nodes[1].key} :
             Connect(f, f, "ARROW", None)
    \/ ValidateBuilder

SpecEndpoints == InitValidate /\ [][NextEndpoints]_vars

\* C28: connection endpoints are stored verbatim while node IDs are
\* sanitized.  connect(f, t) records f and t unchanged, so for an identifier s
\* whose sanitized form differs from s, a builder produced by add_node(s,
\* label) and connect(s, s) fails validate_builder with both an unknown-source
\* and an unknown-target error naming s, whereas the same calls with the
\* sanitized form of s in connect validate without errors.
C28_EndpointsVerbatim ==
    (lastOp = "validate_builder" /\ Len(builder.nodes) = 1
        /\ Len(builder.connections) = 1) =>
        LET s == builder.nodes[1].value.label
            c == builder.connections[1]
        IN  /\ builder.nodes[1].key = SanitizeId(s)
            /\ c.from_node = c.to_node
            /\ c.from_node \in {s, SanitizeId(s)}
            /\ (c.from_node = s /\ SanitizeId(s) # s) =>
                  /\ ret = FALSE
                  /\ validator.errors =
                        << Msg(<<"C", "o", "n", "n", "e", "c", "t", "i", "o", "n", " ",
                                 "r", "e", "f", "e", "r", "e", "n", "c", "e", "s", " ",
                                 "u", "n", "k", "n", "o", "w", "n", " ", "s", "o", "u",
                                 "r", "c", "e", " ", "n", "o", "d", "e", ":", " ">> \o s),
                           Msg(<<"C", "o", "n", "n", "e", "c", "t", "i", "o", "n", " ",
                                 "r", "e", "f", "e", "r", "e", "n", "c", "e", "s", " ",
                                 "u", "n", "k", "n", "o", "w", "n", " ", "t", "a", "r",
                                 "g", "e", "t", " ", "n", "o", "d", "e", ":", " ">> \o s) >>
            /\ c.from_node = SanitizeId(s) =>
                  /\ ret = TRUE
                  /\ validator.errors = <<>>

\* add_node("a-1", ...) and connect("a-1", "a-1"): the key is a_1 and both
\* endpoints are unknown
C28_Witness ==
    /\ lastOp = "validate_builder"
    /\ Len(builder.nodes) = 1
    /\ builder.nodes[1].key = <<"a", "_", "1">>
    /\ Len(builder.connections) = 1
    /\ builder.connections[1].from_node = <<"a", "-", "1">>
    /\ Len(validator.errors) = 2
    /\ ret = FALSE

\* add_node("a-1", ...) and connect("a_1", "a_1"): no errors
C28_WitnessSanitized ==
    /\ lastOp = "validate_builder"
    /\ Len(builder.nodes) = 1
    /\ builder.nodes[1].value.label = <<"a", "-", "1">>
    /\ Len(builder.connections) = 1
    /\ builder.connections[1].from_node = <<"a", "_", "1">>
    /\ validator.errors = <<>>
    /\ ret = TRUE

----------------------------------------------------------------------------
(* SpecSyntax: a fresh FlowchartValidator validates one document, made of a  *)
(* first line and up to MaxBodyLines further lines                           *)

\* first lines: blank, prose, connections, a comment, and the declaration of
\* every dialect, some in another letter case
FirstLines ==
    {<<>>,
     <<"h", "e", "l", "l", "o">>,
     <<"A", " ", "-", "-", ">", " ", "B">>,
     <<"A", "[", "S", "t", "a", "r", "t", "]", " ", "-", "-", ">", " ", "B", "[", "P",
       "r", "o", "c", "e", "s", "s", "]">>,
     <<"%", "%", " ", "n", "o", "t", "e">>,
     <<"f", "l", "o", "w", "c", "h", "a", "r", "t", " ", "T", "D">>,
     <<"g", "r", "a", "p", "h", " ", "L", "R">>,
     <<"F", "L", "O", "W", "C", "H", "A", "R", "T", " ", "T", "D">>,
     <<"p", "i", "e">>,
     <<"p", "i", "e", " ", "t", "i", "t", "l", "e", " ", "P">>,
     <<"q", "u", "a", "d", "r", "a", "n", "t", "C", "h", "a", "r", "t">>,
     <<"g", "i", "t", "G", "r", "a", "p", "h">>,
     <<"g", "a", "n", "t", "t">>,
     <<"G", "A", "N", "T", "T">>,
     <<"s", "e", "q", "u", "e", "n", "c", "e", "D", "i", "a", "g", "r", "a", "m">>,
     <<"c", "l", "a", "s", "s", "D", "i", "a", "g", "r", "a", "m">>,
     <<"c", "l", "a", "s", "s", "d", "i", "a", "g", "r", "a", "m">>,
     <<"s", "t", "a", "t", "e", "D", "i", "a", "g", "r", "a", "m", "-", "v", "2">>,
     <<"e", "r", "D", "i", "a", "g", "r", "a", "m">>,
     <<"j", "o", "u", "r", "n", "e", "y">>,
     <<"P", "I", "E", " ", "T", "I", "T", "L", "E", " ", "P">>}

\* the lines a document goes on with
BodyLines ==
    {<<"f", "l", "o", "w", "c", "h", "a", "r", "t", " ", "T", "D">>,
     <<"%", "%", " ", "f", "l", "o", "w", "c", "h", "a", "r", "t", " ", "T", "D">>,
     <<"A", " ", "-", "-", ">", " ", "B">>,
     <<"A", "[", "S", "t", "a", "r", "t", "]", " ", "-", "-", ">", " ", "B", "[", "P",
       "r", "o", "c", "e", "s", "s", "]">>,
     <<"h", "e", "l", "l", "o">>,
     <<"p", "i", "e", " ", "t", "i", "t", "l", "e", " ", "P">>,
     <<"\"", "A", "\"", " ", ":", " ", "1">>,
     <<"t", "i", "t", "l", "e", " ", "Q">>,
     <<"x", "-", "a", "x", "i", "s", " ", "L", " ", "-", "-", ">", " ", "H">>,
     <<"y", "-", "a", "x", "i", "s", " ", "L", " ", "-", "-", ">", " ", "H">>,
     <<"q", "u", "a", "d", "r", "a", "n", "t", "-", "1", " ", "A">>,
     <<"P", ":", " ", "[", "1", ",", " ", "2", "]">>,
     <<"X", "-", "A", "x", "i", "s", " ", "L", " ", "-", "-", ">", " ", "H">>}

InitSyntax ==
    \* '\n'.join of the lines, each indented as the examples of the repository are
    /\ arg \in {Join(<<first>> \o [i \in DOMAIN body |-> <<" ", " ", " ", " ">> \o body[i]], <<"\n">>) :
                first \in FirstLines, body \in StringsUpTo(BodyLines, MaxBodyLines)}
    /\ builder = FlowchartBuilder(None)
    /\ heap = <<>>
    /\ validator = FlowchartValidator
    /\ parsed = None
    /\ node = None
    /\ ret = None
    /\ prev = None
    /\ lastOp = "init"
    /\ calls = 0
    /\ generator = None
    /\ disk = NoDisk

\* FlowchartValidator().validate_mermaid_syntax(arg)
NextSyntax == lastOp = "init" /\ ValidateMermaidSyntax(arg)

SpecSyntax == InitSyntax /\ [][NextSyntax]_vars

\* C11: whenever validate_mermaid_syntax classifies the text as flowchart or
\* graph (by its first line or by sniffing an arrow) and no non-comment line
\* starts with 'flowchart ' or 'graph ', it records the error "Missing
\* 'flowchart' or 'graph' declaration" and returns False; the connection line
\* A[Start] --> B[Process] alone is invalid, and valid after flowchart TD.
C11_DeclarationRequired ==
    lastOp = "validate_mermaid_syntax" =>
        LET lines    == StrippedLines(arg)
            declared == DiagramTypeOf(ToLower(lines[1]))
            content  == ToLower(Join(lines, <<" ">>))
            sniffed  == /\ declared = None
                        /\ ~Contains(content, <<"p", "i", "e", " ", "t", "i", "t", "l",
                             "e">>)
                        /\ Contains(content, <<"-", "-", ">">>) \/ Contains(content, <<"-",
                                                                     "-", "-">>)
            flowchart == /\ lines # <<>>
                         /\ \/ declared \in {Some(<<"f", "l", "o", "w", "c", "h", "a",
                                 "r", "t">>), Some(<<"g", "r", "a", "p", "h">>)}
                            \/ sniffed
            has_declaration ==
                \E n \in DOMAIN lines :
                    /\ ~StartsWith(lines[n], <<"%", "%">>)
                    /\ StartsWith(lines[n], <<"f", "l", "o", "w", "c", "h", "a", "r",
                         "t", " ">>) \/ StartsWith(lines[n], <<"g", "r", "a", "p", "h",
                                          " ">>)
            missing == \E k \in DOMAIN validator.errors :
                          validator.errors[k].text
                              = <<"M", "i", "s", "s", "i", "n", "g", " ", "'", "f",
                                  "l", "o", "w", "c", "h", "a", "r", "t", "'", " ",
                                  "o", "r", " ", "'", "g", "r", "a", "p", "h", "'",
                                  " ", "d", "e", "c", "l", "a", "r", "a", "t", "i",
                                  "o", "n">>
        IN  /\ flowchart /\ ~has_declaration => missing /\ ret = FALSE
            /\ flowchart /\ has_declaration => ~missing /\ ret = TRUE
            /\ arg = <<"A", "[", "S", "t", "a", "r", "t", "]", " ", "-", "-", ">", " ",
                       "B", "[", "P", "r", "o", "c", "e", "s", "s", "]">> => ret = FALSE
            /\ arg = <<"f", "l", "o", "w", "c", "h", "a", "r", "t", " ", "T", "D",
                       "\n", " ", " ", " ", " ", "A", "[", "S", "t", "a", "r", "t",
                       "]", " ", "-", "-", ">", " ", "B", "[", "P", "r", "o", "c", "e",
                       "s", "s", "]">> => ret = TRUE

\* the connection line alone: the error is recorded and the result is False
C11_Witness ==
    /\ lastOp = "validate_mermaid_syntax"
    /\ arg = <<"A", "[", "S", "t", "a", "r", "t", "]", " ", "-", "-", ">", " ", "B",
               "[", "P", "r", "o", "c", "e", "s", "s", "]">>
    /\ ret = FALSE
    /\ \E k \in DOMAIN validator.errors :
          validator.errors[k].text = <<"M", "i", "s", "s", "i", "n", "g", " ", "'",
                                       "f", "l", "o", "w", "c", "h", "a", "r", "t",
                                       "'", " ", "o", "r", " ", "'", "g", "r", "a",
                                       "p", "h", "'", " ", "d", "e", "c", "l", "a",
                                       "r", "a", "t", "i", "o", "n">>

\* the connection line after flowchart TD: valid
C11_WitnessDeclared ==
    /\ lastOp = "validate_mermaid_syntax"
    /\ arg = <<"f", "l", "o", "w", "c", "h", "a", "r", "t", " ", "T", "D", "\n", " ",
               " ", " ", " ", "A", "[", "S", "t", "a", "r", "t", "]", " ", "-", "-",
               ">", " ", "B", "[", "P", "r", "o", "c", "e", "s", "s", "]">>
    /\ ret = TRUE
    /\ validator.errors = <<>>

\* C12 as stated: for the one line A --> B with no declaration,
\* validate_mermaid_syntax adds a warning about the missing declaration,
\* records no errors and returns True.
C12_SniffedFlowchartValid ==
    lastOp = "validate_mermaid_syntax" /\ arg = <<"A", " ", "-", "-", ">", " ", "B">> =>
        /\ \E k \in DOMAIN validator.warnings :
              Contains(validator.warnings[k].text, <<"m", "i", "s", "s", "i", "n", "g",
                    " ", "d", "i", "a", "g", "r", "a", "m", " ", "d", "e", "c", "l",
                    "a", "r", "a", "t", "i", "o", "n">>)
        /\ validator.errors = <<>>
        /\ ret = TRUE

\* C12, amended: for the one line A --> B with no declaration,
\* validate_mermaid_syntax classifies it as a flowchart and adds the warning
\* about the missing declaration, but records the error "Missing 'flowchart'
\* or 'graph' declaration" and returns False.
C12_SniffedFlowchartInvalid ==
    lastOp = "validate_mermaid_syntax" /\ arg = <<"A", " ", "-", "-", ">", " ", "B">> =>
        /\ validator.warnings
              = <<Msg(<<"D", "e", "t", "e", "c", "t", "e", "d", " ", "f", "l", "o",
                        "w", "c", "h", "a", "r", "t", " ", "c", "o", "n", "n", "e",
                        "c", "t", "i", "o", "n", "s", " ", "b", "u", "t", " ", "m",
                        "i", "s", "s", "i", "n", "g", " ", "d", "i", "a", "g", "r",
                        "a", "m", " ", "d", "e", "c", "l", "a", "r", "a", "t", "i",
                        "o", "n">>)>>
        /\ validator.errors = <<Msg(<<"M", "i", "s", "s", "i", "n", "g", " ", "'", "f",
                                      "l", "o", "w", "c", "h", "a", "r", "t", "'", " ",
                                      "o", "r", " ", "'", "g", "r", "a", "p", "h", "'",
                                      " ", "d", "e", "c", "l", "a", "r", "a", "t", "i",
                                      "o", "n">>)>>
        /\ ret = FALSE

\* A --> B was validated
C12_Witness ==
    /\ lastOp = "validate_mermaid_syntax"
    /\ arg = <<"A", " ", "-", "-", ">", " ", "B">>
    /\ Len(validator.warnings) = 1
    /\ Len(validator.errors) = 1
    /\ ret = FALSE

\* C13: for any text whose first line begins, in any letter case, with the
\* keyword of gitGraph, gantt, sequenceDiagram, classDiagram, stateDiagram,
\* erDiagram or journey, validate_mermaid_syntax returns True with no errors
\* and exactly one warning, the one saying that only basic validation is
\* performed, whatever the remaining lines contain.
C13_OtherDialectsAccepted ==
    lastOp = "validate_mermaid_syntax" =>
        LET lines == StrippedLines(arg)
        IN  (/\ lines # <<>>
             \* the declaration keywords of the other recognized dialects, lower-cased
             /\ \E kw \in {<<"g", "i", "t", "g", "r", "a", "p", "h">>, <<"g", "a", "n", "t", "t">>, <<"s",
                           "e", "q", "u", "e", "n", "c", "e", "d", "i", "a", "g", "r", "a", "m">>, <<"c",
                           "l", "a", "s", "s", "d", "i", "a", "g", "r", "a", "m">>,
                           <<"s", "t", "a", "t", "e", "d", "i", "a", "g", "r", "a", "m">>, <<"e", "r", "d",
                           "i", "a", "g", "r", "a", "m">>, <<"j", "o", "u", "r", "n", "e", "y">>} : StartsWith(ToLower(lines[1]), kw))
            => /\ ret = TRUE
               /\ validator.errors = <<>>
               /\ Len(validator.warnings) = 1
               /\ StartsWith(validator.warnings[1].text, <<"B", "a", "s", "i", "c",
                    " ", "v", "a", "l", "i", "d", "a", "t", "i", "o", "n", " ", "o",
                    "n", "l", "y", " ", "f", "o", "r", " ">>)

\* C14: for text whose first line is quadrantChart, validate_mermaid_syntax
\* returns True exactly when the text has both a line starting with 'x-axis '
\* and a line starting with 'y-axis '; each missing axis adds its own error,
\* and a missing title, missing quadrant-N lines and missing 'name: [x, y]'
\* data points each add only a warning, so the errors are exactly the missing
\* axes and a chart with both axes and no data points is valid with the
\* data-points warning.
C14_QuadrantAxes ==
    lastOp = "validate_mermaid_syntax" =>
        LET lines == StrippedLines(arg)
            Keyword(line) ==
                \E kw \in {<<"q", "u", "a", "d", "r", "a", "n", "t", "c", "h", "a",
                             "r", "t">>, <<"t", "i", "t", "l", "e", " ">>, <<"x", "-",
                                   "a", "x", "i", "s", " ">>, <<"y", "-", "a", "x",
                                         "i", "s", " ">>, <<"q", "u", "a", "d", "r",
                                               "a", "n", "t", "-">>} :
                    StartsWith(ToLower(line), kw)
            Starts(kw) ==
                \E n \in DOMAIN lines :
                    ~StartsWith(lines[n], <<"%", "%">>) /\ StartsWith(ToLower(lines[n]), kw)
            data_points ==
                \E n \in DOMAIN lines :
                    /\ ~StartsWith(lines[n], <<"%", "%">>)
                    /\ ~Keyword(lines[n])
                    /\ Contains(lines[n], <<":">>)
                    /\ Contains(lines[n], <<"[">>)
                    /\ Contains(lines[n], <<"]">>)
            Texts(list) == {list[k].text : k \in DOMAIN list}
            x_error == <<"Q", "u", "a", "d", "r", "a", "n", "t", " ", "c", "h", "a",
                         "r", "t", " ", "m", "u", "s", "t", " ", "h", "a", "v", "e",
                         " ", "x", "-", "a", "x", "i", "s", " ", "d", "e", "f", "i",
                         "n", "i", "t", "i", "o", "n">>
            y_error == <<"Q", "u", "a", "d", "r", "a", "n", "t", " ", "c", "h", "a",
                         "r", "t", " ", "m", "u", "s", "t", " ", "h", "a", "v", "e",
                         " ", "y", "-", "a", "x", "i", "s", " ", "d", "e", "f", "i",
                         "n", "i", "t", "i", "o", "n">>
        IN  (lines # <<>> /\ StartsWith(ToLower(lines[1]), <<"q", "u", "a", "d", "r",
                               "a", "n", "t", "c", "h", "a", "r", "t">>)) =>
                /\ ret = (Starts(<<"x", "-", "a", "x", "i", "s", " ">>) /\ Starts(<<"y",
                                                                             "-", "a",
                                                                             "x", "i",
                                                                             "s", " ">>))
                /\ Texts(validator.errors)
                      = {x_error : b \in {TRUE} \ {Starts(<<"x", "-", "a", "x", "i",
                            "s", " ">>)}}
                        \cup {y_error : b \in {TRUE} \ {Starts(<<"y", "-", "a", "x",
                              "i", "s", " ">>)}}
                /\ Len(validator.errors) = Cardinality(Texts(validator.errors))
                /\ Texts(validator.warnings)
                      = {<<"Q", "u", "a", "d", "r", "a", "n", "t", " ", "c", "h", "a",
                           "r", "t", " ", "s", "h", "o", "u", "l", "d", " ", "h", "a",
                           "v", "e", " ", "a", " ", "t", "i", "t", "l", "e">> :
                            b \in {TRUE} \ {Starts(<<"t", "i", "t", "l", "e", " ">>)}}
                        \cup {<<"Q", "u", "a", "d", "r", "a", "n", "t", " ", "c", "h",
                                "a", "r", "t", " ", "s", "h", "o", "u", "l", "d", " ",
                                "d", "e", "f", "i", "n", "e", " ", "q", "u", "a", "d",
                                "r", "a", "n", "t", " ", "l", "a", "b", "e", "l", "s">> :
                                b \in {TRUE} \ {Starts(<<"q", "u", "a", "d", "r", "a",
                                      "n", "t", "-">>)}}
                        \cup {<<"Q", "u", "a", "d", "r", "a", "n", "t", " ", "c", "h",
                                "a", "r", "t", " ", "s", "h", "o", "u", "l", "d", " ",
                                "h", "a", "v", "e", " ", "d", "a", "t", "a", " ", "p",
                                "o", "i", "n", "t", "s">> :
                                b \in {TRUE} \ {data_points}}
                /\ Len(validator.warnings) = Cardinality(Texts(validator.warnings))

\* both axes, no title, no quadrant labels, no data points: valid, three warnings
C14_Witness ==
    /\ lastOp = "validate_mermaid_syntax"
    /\ arg = <<"q", "u", "a", "d", "r", "a", "n", "t", "C", "h", "a", "r", "t", "\n",
               " ", " ", " ", " ", "x", "-", "a", "x", "i", "s", " ", "L", " ", "-",
               "-", ">", " ", "H", "\n", " ", " ", " ", " ", "y", "-", "a", "x", "i",
               "s", " ", "L", " ", "-", "-", ">", " ", "H">>
    /\ ret = TRUE
    /\ validator.errors = <<>>
    /\ \E k \in DOMAIN validator.warnings :
          validator.warnings[k].text = <<"Q", "u", "a", "d", "r", "a", "n", "t", " ",
                                         "c", "h", "a", "r", "t", " ", "s", "h", "o",
                                         "u", "l", "d", " ", "h", "a", "v", "e", " ",
                                         "d", "a", "t", "a", " ", "p", "o", "i", "n",
                                         "t", "s">>

\* a data point and one axis: invalid with the error of the missing axis only
C14_WitnessMissingAxis ==
    /\ lastOp = "validate_mermaid_syntax"
    /\ arg = <<"q", "u", "a", "d", "r", "a", "n", "t", "C", "h", "a", "r", "t", "\n",
               " ", " ", " ", " ", "x", "-", "a", "x", "i", "s", " ", "L", " ", "-",
               "-", ">", " ", "H", "\n", " ", " ", " ", " ", "P", ":", " ", "[", "1",
               ",", " ", "2", "]">>
    /\ ret = FALSE
    /\ validator.errors = <<Msg(<<"Q", "u", "a", "d", "r", "a", "n", "t", " ", "c",
                                  "h", "a", "r", "t", " ", "m", "u", "s", "t", " ",
                                  "h", "a", "v", "e", " ", "y", "-", "a", "x", "i",
                                  "s", " ", "d", "e", "f", "i", "n", "i", "t", "i",
                                  "o", "n">>)>>

C15_WitnessNoData ==
    /\ lastOp = "validate_mermaid_syntax"
    /\ arg = <<"p", "i", "e", " ", "t", "i", "t", "l", "e", " ", "P", "\n", " ", " ",
               " ", " ", "h", "e", "l", "l", "o">>
    /\ ret = FALSE
    /\ validator.errors = <<Msg(<<"P", "i", "e", " ", "c", "h", "a", "r", "t", " ",
                                  "m", "u", "s", "t", " ", "h", "a", "v", "e", " ",
                                  "d", "a", "t", "a", " ", "e", "n", "t", "r", "i",
                                  "e", "s">>)>>
    /\ validator.warnings = <<>>

\* C24: dialect classification looks at the first non-comment line.  A
\* document whose leading lines are %% comments followed by a flowchart
\* declaration validates True as a flowchart, with no missing-declaration
\* warning and no 'could not determine diagram type' error.
C24_CommentsSkipped ==
    LET lines    == StrippedLines(arg)
        comment  == {n \in DOMAIN lines : StartsWith(lines[n], <<"%", "%">>)}
        code     == DOMAIN lines \ comment
        first    == Min(code)
        leading  == lines # <<>> /\ StartsWith(lines[1], <<"%", "%">>) /\ code # {}
    IN  (lastOp = "validate_mermaid_syntax" /\ leading
            /\ StartsWith(ToLower(lines[first]), <<"f", "l", "o", "w", "c", "h", "a",
                 "r", "t", " ">>)) =>
            /\ ret = TRUE
            /\ validator.errors = <<>>
            /\ \A i \in DOMAIN validator.warnings :
                  validator.warnings[i] #
                      Msg(<<"D", "e", "t", "e", "c", "t", "e", "d", " ", "f", "l", "o",
                            "w", "c", "h", "a", "r", "t", " ", "c", "o", "n", "n", "e",
                            "c", "t", "i", "o", "n", "s", " ", "b", "u", "t", " ", "m",
                            "i", "s", "s", "i", "n", "g", " ", "d", "i", "a", "g", "r",
                            "a", "m", " ", "d", "e", "c", "l", "a", "r", "a", "t", "i",
                            "o", "n">>)

-----------------------------------------------------------------------------
(* FlowchartParser.parse_string on text that no builder produced: arg is the *)
(* text, parsed the outcome of the call.                                     *)

\* the lines a text to parse is made of: front-matter fences and titles,
\* known and unknown directions, comments, nodes, connections, well-formed
\* and malformed style, classDef and click lines, and a line no classifier
\* matches
ParseTextLines ==
    {<<"-", "-", "-">>,
     <<"t", "i", "t", "l", "e", ":", " ", "T">>,
     <<"f", "l", "o", "w", "c", "h", "a", "r", "t", " ", "L", "R">>,
     <<"f", "l", "o", "w", "c", "h", "a", "r", "t", " ", "X", "X">>,
     <<"%", "%", " ", "n", "o", "t", "e">>,
     <<"A", "[", "x", "]">>,
     <<"A", " ", "-", "-", ">", " ", "B">>,
     <<"h", "e", "l", "l", "o">>,
     <<"s", "t", "y", "l", "e", " ", "A", " ", "f", "i", "l", "l", ":", "#", "f", "9",
       "f", ",", "s", "t", "r", "o", "k", "e", "-", "w", "i", "d", "t", "h", ":", "4",
       "p", "x">>,
     <<"s", "t", "y", "l", "e", " ", "A", " ", "s", "t", "r", "o", "k", "e", "-", "w",
       "i", "d", "t", "h", ":", "t", "h", "i", "c", "k">>,
     <<"s", "t", "y", "l", "e", " ", "A", " ", "s", "t", "r", "o", "k", "e", "-", "w",
       "i", "d", "t", "h", ":">>,
     <<"s", "t", "y", "l", "e", " ", "A">>,
     <<"c", "l", "a", "s", "s", "D", "e", "f", " ", "c", " ", "f", "i", "l", "l", ":",
       "#", "f", "9", "f">>,
     <<"c", "l", "a", "s", "s", "D", "e", "f", " ", "c">>,
     <<"c", "l", "i", "c", "k", " ", "A", " ", "\"", "u", "\"", " ", "\"", "t", "\"">>,
     <<"c", "l", "i", "c", "k", " ", "A">>}

InitParse ==
    \* the texts: up to MaxParseLines lines, each indented
    /\ arg \in {Join([i \in DOMAIN lines |-> <<" ", " ">> \o lines[i]], <<"\n">>) :
                lines \in StringsUpTo(ParseTextLines, MaxParseLines)}
    /\ builder = FlowchartBuilder(None)
    /\ heap = <<>>
    /\ validator = FlowchartValidator
    /\ parsed = None
    /\ node = None
    /\ ret = None
    /\ prev = None
    /\ lastOp = "init"
    /\ calls = 0
    /\ generator = None
    /\ disk = NoDisk

\* parsed = FlowchartParser().parse_string(arg)
ParseText ==
    /\ lastOp = "init"
    /\ parsed' = parse_string(arg)
    /\ lastOp' = "parse_string"
    /\ UNCHANGED <<builder, heap, validator, node, arg, ret, prev, calls, generator, disk>>

NextParse == ParseText

SpecParse == InitParse /\ [][NextParse]_vars

\* C16: parse_string never raises: for every input string (unterminated
\* front matter, unknown directions, malformed style, classDef and click
\* lines, lines matching no classifier) it returns a FlowchartBuilder,
\* dropping what it cannot interpret.
C16_ParseNeverRaises ==
    lastOp = "parse_string" => parsed.raised = None

----------------------------------------------------------------------------
(* SpecRoundTrip: a builder of the subset the parser reads (rectangle,      *)
(* round and rhombus root nodes, labelled and unlabelled connections, a     *)
(* direction, an optional title) is built, the document is parsed and the   *)
(* parsed builder is built again                                            *)

\* parsed = FlowchartParser().parse_string(ret), ret being the document that
\* builder.build() just returned
ParseString ==
    /\ lastOp = "build"
    /\ ret.raised = None
    /\ parsed' = parse_string(ret.value)
    /\ lastOp' = "parse_string"
    /\ UNCHANGED <<builder, heap, validator, node, arg, ret, prev, calls, generator, disk>>

\* ret = parsed.build(), prev keeping the document that was parsed
Rebuild ==
    /\ lastOp = "parse_string"
    /\ parsed.raised = None
    /\ ret' = build(parsed.value, <<>>)
    /\ prev' = Some(ret)
    /\ lastOp' = "rebuild"
    /\ UNCHANGED <<builder, heap, validator, parsed, node, arg, calls, generator, disk>>

ParsedShapes == {"RECTANGLE", "ROUND_RECT", "RHOMBUS"}

\* the builder is still being filled: the round trip ends the run
Editing == lastOp \in {"init", "mutator", "add_node"}

NextRoundTrip ==
    \/ \E d \in Direction : Editing /\ SetDirection(d)
    \/ \E id \in {<<"a">>, <<"b">>}, shape \in ParsedShapes :
          /\ Editing
          /\ ~DictHas(builder.nodes, id)
          /\ AddNode(id, <<"x">>, shape)
    \* connection labels: none, a word, and a word after a space
    \/ \E k \in DOMAIN ArrowType, label \in {None, Some(<<"y">>), Some(<<" ", "y">>)} :
          /\ Editing
          /\ Len(builder.connections) < MaxConnections
          /\ Connect(<<"a">>, <<"b">>, ArrowType[k], label)
    \/ Editing /\ Build
    \/ ParseString
    \/ Rebuild

SpecRoundTrip == Init /\ [][NextRoundTrip]_vars

\* C1: for every builder of the subset the parser reads, the document built
\* from the parsed builder equals, as a string, the document that was parsed:
\* FlowchartParser.parse_string(b.build()).build() = b.build().
C1_RoundTrip == lastOp = "rebuild" => ret = prev[1]

\* C22: arrow-token precedence.  For each of the seven arrow types t,
\* identifiers A and B and an optional label L, parsing the line that
\* FlowchartConnection(A, B, t, L).to_mermaid() produces appends exactly one
\* connection, with from_node A, to_node B, arrow_type t and label L: no
\* token is read as another, textually overlapping token.
C22_ArrowPrecedence ==
    (lastOp = "parse_string" /\ Len(builder.connections) = 1) =>
        /\ parsed.raised = None
        /\ parsed.value.connections = builder.connections

----------------------------------------------------------------------------
(* SpecShapes: a builder with one node of any of the thirteen shapes is      *)
(* built and the document is parsed                                          *)

NextShapes ==
    \/ \E id \in {<<"a">>, <<"b">>}, label \in {<<"x">>, <<"a", " ", "b">>},
          shape \in NodeShape :
          /\ lastOp = "init"
          /\ AddNode(id, label, shape)
    \/ lastOp = "add_node" /\ Build
    \/ ParseString

SpecShapes == Init /\ [][NextShapes]_vars

\* C23: unsupported shapes are silently ignored by the parser.  When
\* parse_string reads the node line the builder emits for a shape other than
\* rectangle, round or rhombus it adds no node to the reconstructed builder,
\* and every node the parser does create carries the label that stood between
\* the shape delimiters of its line.
C23_UnsupportedIgnored ==
    (lastOp = "parse_string" /\ Len(builder.nodes) = 1) =>
        LET emitted == builder.nodes[1].value
        IN  /\ parsed.raised = None
            /\ emitted.shape \notin ParsedShapes => parsed.value.nodes = <<>>
            /\ \A i \in DOMAIN parsed.value.nodes :
                  parsed.value.nodes[i].value.label = emitted.label

-----------------------------------------------------------------------------
(* NodeStyle.to_css on its own: arg is the style, ret the CSS string.        *)

\* the styles: every field unset or set, the stroke width to 0..MaxWidth
Styles ==
    {NodeStyle(fill_color, stroke_color, stroke_width, color, font_size, font_weight) :
        fill_color   \in {None, Some(<<"#", "f", "9", "f">>)},
        stroke_color \in {None, Some(<<"#", "3", "3", "3">>)},
        stroke_width \in {None} \cup {Some(w) : w \in 0..MaxWidth},
        color        \in {None, Some(<<"r", "e", "d">>)},
        font_size    \in {None, Some(<<"1", "2", "p", "x">>)},
        font_weight  \in {None, Some(<<"b", "o", "l", "d">>)}}

InitStyle ==
    /\ arg \in Styles
    /\ builder = FlowchartBuilder(None)
    /\ heap = <<>>
    /\ validator = FlowchartValidator
    /\ parsed = None
    /\ node = None
    /\ ret = None
    /\ prev = None
    /\ lastOp = "init"
    /\ calls = 0
    /\ generator = None
    /\ disk = NoDisk

\* ret = arg.to_css()
ToCss ==
    /\ lastOp = "init"
    /\ ret' = to_css(arg)
    /\ lastOp' = "to_css"
    /\ UNCHANGED <<builder, heap, validator, parsed, node, arg, prev, calls, generator, disk>>

NextStyle == ToCss

SpecStyle == InitStyle /\ [][NextStyle]_vars

\* C18: to_css emits exactly the fields that are set, each as property:value,
\* comma-separated, in the order fill, stroke, stroke-width, color, font-size,
\* font-weight; a style with no field set renders to the empty string, and
\* every field that was given a value, a stroke width of 0 included, appears
\* in the output.
C18_SetFieldsEmitted ==
    lastOp = "to_css" =>
        LET Field(property, value, suffix) ==
                IF value = None THEN <<>>
                ELSE <<property \o <<":">> \o value[1] \o suffix>>
            width == IF arg.stroke_width = None THEN None
                     ELSE Some(IntToStr(arg.stroke_width[1]))
        IN  ret = Join(Field(<<"f", "i", "l", "l">>, arg.fill_color, <<>>)
                       \o Field(<<"s", "t", "r", "o", "k", "e">>, arg.stroke_color, <<>>)
                       \o Field(<<"s", "t", "r", "o", "k", "e", "-", "w", "i", "d",
                                  "t", "h">>, width, <<"p", "x">>)
                       \o Field(<<"c", "o", "l", "o", "r">>, arg.color, <<>>)
                       \o Field(<<"f", "o", "n", "t", "-", "s", "i", "z", "e">>, arg.font_size, <<>>)
                       \o Field(<<"f", "o", "n", "t", "-", "w", "e", "i", "g", "h", "t">>, arg.font_weight, <<>>),
                       <<",">>)

-----------------------------------------------------------------------------
(* MermaidGenerator.generate: arg is the call (code, output file, the step   *)
(* that fails), ret the path returned or the exception, prev the generator   *)
(* and the disk before the call, calls the number of generate calls.         *)

InitGenerate ==
    /\ \E kind \in {"Playwright", "Online"} : generator = MermaidGenerator(kind)
    /\ disk = ConfigDisk
    /\ builder = FlowchartBuilder(None)
    /\ heap = <<>>
    /\ validator = FlowchartValidator
    /\ parsed = None
    /\ node = None
    /\ arg = None
    /\ ret = None
    /\ prev = None
    /\ lastOp = "init"
    /\ calls = 0

\* generator.set_output_format(OutputFormat[format]), before the first generate
SetOutputFormat(format) ==
    /\ lastOp = "init"
    /\ generator' = set_output_format(generator, format)
    /\ lastOp' = "set_output_format"
    /\ UNCHANGED <<builder, heap, validator, parsed, node, arg, ret, prev, calls, disk>>

\* ret = await generator.generate(mermaid_code, output_file)
Generate(mermaid_code, output_file, fails) ==
    LET r == generate(generator, disk, mermaid_code, output_file, fails)
    IN  /\ calls < MaxGenerations
        /\ calls' = calls + 1
        /\ generator' = r.generator
        /\ disk' = r.disk
        /\ ret' = r.outcome
        /\ prev' = Some([generator |-> generator, disk |-> disk])
        /\ arg' = [mermaid_code |-> mermaid_code, output_file |-> output_file,
                   fails |-> fails]
        /\ lastOp' = "generate"
        /\ UNCHANGED <<builder, heap, validator, parsed, node>>

\* generator.clear_history()
ClearHistory ==
    /\ lastOp = "generate"
    /\ generator' = [generator EXCEPT !.history = <<>>]
    /\ lastOp' = "clear_history"
    /\ UNCHANGED <<builder, heap, validator, parsed, node, arg, ret, prev, calls, disk>>

NextGenerate ==
    \/ \E format \in {"SVG", "PDF"} : SetOutputFormat(format)
    \/ ClearHistory
    \* the code handed to generate: empty, blank, a diagram
    \/ \E mermaid_code \in {<<>>, <<" ", "\n">>, <<"A", "-", "-", ">", "B">>},
          output_file \in {None, Some(Path("out", <<"d", "png">>))},
          fails \in {"mkdir", "start", "html", "render", "write", "page", "browser",
                     "playwright", "nothing"} :
          Generate(mermaid_code, output_file, fails)

SpecGenerate == InitGenerate /\ [][NextGenerate]_vars

\* C19: generate raises MermaidSyntaxError for empty or whitespace-only code
\* before the renderer is started and before anything is written (generator
\* and disk are as before the call); it raises MermaidSyntaxError only when
\* the code is blank or the renderer's validate_syntax returned False; a
\* failure of browser start-up or of the render step surfaces as
\* MermaidGenerationError, never as MermaidSyntaxError.
C19_SyntaxVersusBackend ==
    lastOp = "generate" =>
        LET blank      == Strip(arg.mermaid_code) = <<>>
            playwright == generator.renderer.kind = "Playwright"
            rejected   == ~validate_syntax(generator.renderer, arg.mermaid_code,
                                           arg.fails # "html")
        IN  /\ blank =>
                  /\ ret = Raised("MermaidSyntaxError")
                  /\ generator = prev[1].generator
                  /\ disk = prev[1].disk
            /\ ret.raised = Some("MermaidSyntaxError") => blank \/ rejected
            /\ (~blank /\ (arg.fails = "render" \/ (arg.fails = "start" /\ playwright)))
                  => ret.raised = Some("MermaidGenerationError")

\* blank code on a fresh generator: rejected, the browser never started, no
\* file written, nothing recorded
C19_Witness ==
    /\ lastOp = "generate"
    /\ arg.mermaid_code = <<" ", "\n">>
    /\ ret = Raised("MermaidSyntaxError")
    /\ generator.renderer.starts = 0
    /\ generator.history = <<>>
    /\ disk = ConfigDisk

\* the browser does not come up: a generation error, recorded in the history
C19_WitnessStartUp ==
    /\ lastOp = "generate"
    /\ arg.fails = "start"
    /\ generator.renderer.kind = "Playwright"
    /\ generator.renderer.starts = 1
    /\ ret = Raised("MermaidGenerationError")
    /\ Len(generator.history) = 1
    /\ ~generator.history[1].success

\* the render step fails after a successful validation
C19_WitnessRender ==
    /\ lastOp = "generate"
    /\ arg.fails = "render"
    /\ Strip(arg.mermaid_code) # <<>>
    /\ ret = Raised("MermaidGenerationError")
    /\ disk.files = {}

\* C29: generation history records every attempt once.  Each generate call
\* made with non-blank code appends exactly one record, after the records of
\* the calls before it, with success True when the call returned the output
\* path and success False plus the error text when the call raised; a call
\* with blank code adds no record, and clear_history empties the history.
C29_HistoryRecordsEveryAttempt ==
    /\ lastOp = "generate" =>
          LET before == prev[1].generator.history
              after  == generator.history
              record == after[Len(after)]
          IN  IF Strip(arg.mermaid_code) = <<>>
              THEN after = before /\ ret.raised # None
              ELSE /\ Len(after) = Len(before) + 1
                   /\ SubSeq(after, 1, Len(before)) = before
                   /\ record.success = (ret.raised = None)
                   /\ record.success => ret.value = record.output_file
                   /\ record.error = ret.raised
    /\ lastOp = "clear_history" => generator.history = <<>>

\* C30: no browser resources outlive a generation.  Whenever generate with a
\* PlaywrightMermaidRenderer finishes, by returning or by raising (a failed
\* browser start-up, a failed render, or a failure while closing one of the
\* handles included), the renderer's page, browser and playwright handles are
\* all None.
C30_HandlesCleared ==
    (lastOp = "generate" /\ generator.renderer.kind = "Playwright") =>
        /\ ~generator.renderer.page
        /\ ~generator.renderer.browser
        /\ ~generator.renderer.playwright

-----------------------------------------------------------------------------
(* MermaidGenerator.set_config: arg is the keyword arguments, ret the       *)
(* outcome (the value None stands for the generator itself, which the call   *)
(* returns), prev the generator before the call.                             *)

\* **kwargs: up to MaxKwargs keyword arguments, no key twice.  The keys are
\* two fields, a name that is no attribute and an attribute that is no field;
\* the values a theme, a string and an int.
Kwargs ==
    LET keys   == {"theme", "width", "colour", "__post_init__"}
        values == {Value("MermaidTheme", "DARK"), Value("str", "purple"),
                   Value("int", "1200")}
    IN  {kwargs \in StringsUpTo([key : keys, value : values], MaxKwargs) :
            \A i, j \in DOMAIN kwargs : kwargs[i].key = kwargs[j].key => i = j}

InitConfig ==
    /\ generator = MermaidGenerator("Playwright")
    /\ disk = ConfigDisk
    /\ builder = FlowchartBuilder(None)
    /\ heap = <<>>
    /\ validator = FlowchartValidator
    /\ parsed = None
    /\ node = None
    /\ arg = None
    /\ ret = None
    /\ prev = None
    /\ lastOp = "init"
    /\ calls = 0

\* ret = generator.set_config(**kwargs)
SetConfig(kwargs) ==
    LET r == set_config(generator, kwargs)
    IN  /\ lastOp = "init"
        /\ generator' = r.generator
        /\ ret' = IF r.raised = None THEN Returned(None) ELSE Raised(r.raised[1])
        /\ prev' = Some(generator)
        /\ arg' = kwargs
        /\ lastOp' = "set_config"
        /\ UNCHANGED <<builder, heap, validator, parsed, node, calls, disk>>

NextConfig == \E kwargs \in Kwargs : SetConfig(kwargs)

SpecConfig == InitConfig /\ [][NextConfig]_vars

C20_WitnessUnknownKey ==
    /\ lastOp = "set_config"
    /\ arg = <<[key |-> "width", value |-> Value("int", "1200")],
               [key |-> "colour", value |-> Value("str", "purple")]>>
    /\ ret = Raised("ValueError")
    /\ generator.config["width"] = Value("int", "1200")

----------------------------------------------------------------------------
(* SpecSanitize: a FlowchartNode is constructed from an arbitrary id *)

InitSanitize ==
    \* the characters ids are drawn from: letters of each case, a digit, the
    \* underscore, two characters outside the class, and a non-ASCII letter
    /\ arg \in StringsUpTo({"a", "b", "Z", "1", "_", "-", " ", "U+00E9"}, MaxIdLen)
    /\ builder = FlowchartBuilder(None)
    /\ heap = <<>>
    /\ validator = FlowchartValidator
    /\ parsed = None
    /\ node = None
    /\ ret = None
    /\ prev = None
    /\ lastOp = "init"
    /\ calls = 0
    /\ generator = None
    /\ disk = NoDisk

\* node = FlowchartNode(arg, "Label")
NewNode ==
    /\ lastOp = "init"
    /\ node' = Some(FlowchartNode(arg, <<"L">>, "RECTANGLE"))
    /\ lastOp' = "FlowchartNode"
    /\ UNCHANGED <<builder, heap, validator, parsed, arg, ret, prev, calls, generator, disk>>

NextSanitize == NewNode

SpecSanitize == InitSanitize /\ [][NextSanitize]_vars

\* C2: the node_id a FlowchartNode computes from any input string is non-empty,
\* starts with a letter or an underscore and holds only [A-Za-z0-9_]
\* (it matches ^[A-Za-z_][A-Za-z0-9_]*$).
C2_SanitizedIdWellFormed ==
    lastOp = "FlowchartNode" =>
        LET id == node[1].node_id
        IN  /\ id # <<>>
            /\ id[1] \in Lower \cup Upper \cup {"_"}
            /\ \A i \in 1..Len(id) : id[i] \in IdChars

\* an id that starts with a digit and holds a character outside the class
C2_Witness ==
    /\ lastOp = "FlowchartNode"
    /\ arg = <<"1", "-">>
    /\ node[1].node_id = <<"n", "o", "d", "e", "_", "1", "_">>

\* the empty id becomes 'node'
C2_WitnessEmpty ==
    /\ lastOp = "FlowchartNode"
    /\ arg = <<>>
    /\ node[1].node_id = <<"n", "o", "d", "e">>

\* C17 as stated: the sanitized id of s is s with every maximal run of
\* characters outside [A-Za-z0-9_] replaced by a single underscore, then
\* prefixed with 'node_' if the first character is not a letter or an
\* underscore, an empty result becoming 'node'; "a--b" yields one underscore
\* for the run.
C17_RunsCollapsed ==
    lastOp = "FlowchartNode" =>
        LET Invalid(i) == arg[i] \notin IdChars
            \* the positions that stay: all but the second and later of a run
            keep     == {i \in 1..Len(arg) : ~(Invalid(i) /\ i > 1 /\ Invalid(i - 1))}
            Nth(k)   == CHOOSE i \in keep : Cardinality({j \in keep : j <= i}) = k
            replaced == [k \in 1..Cardinality(keep) |->
                            IF Invalid(Nth(k)) THEN "_" ELSE arg[Nth(k)]]
            prefixed == IF replaced # <<>> /\ replaced[1] \notin Lower \cup Upper \cup {"_"}
                        THEN <<"n", "o", "d", "e", "_">> \o replaced
                        ELSE replaced
        IN  node[1].node_id = IF prefixed = <<>> THEN <<"n", "o", "d", "e">> ELSE prefixed

\* C17, amended: the sanitized id of s is s with every character outside
\* [A-Za-z0-9_] replaced by an underscore, one for each character, then
\* prefixed with 'node_' if the first character then is not a letter or an
\* underscore, an empty result becoming 'node'; "a--b" yields "a__b", one
\* underscore for each character of the run.
C17_EachCharacterReplaced ==
    lastOp = "FlowchartNode" =>
        LET id       == node[1].node_id
            Replaced(c) == IF c \in IdChars THEN c ELSE "_"
            prefix   == /\ arg # <<>>
                        /\ Replaced(arg[1]) \notin Lower \cup Upper \cup {"_"}
            body     == IF prefix THEN From(id, 6) ELSE id
        IN  /\ arg = <<>> => id = <<"n", "o", "d", "e">>
            /\ arg # <<>> =>
                  /\ prefix => StartsWith(id, <<"n", "o", "d", "e", "_">>)
                  /\ Len(body) = Len(arg)
                  /\ \A i \in 1..Len(arg) :
                        body[i] = Replaced(arg[i])
            /\ arg = <<"a", "-", "-", "b">> => id = <<"a", "_", "_", "b">>

\* a run of two invalid characters gives two underscores
C17_Witness ==
    /\ lastOp = "FlowchartNode"
    /\ arg = <<"a", "-", "-", "b">>
    /\ node[1].node_id = <<"a", "_", "_", "b">>

\* create_quick_flowchart without the "No" connection to the alternative node
create_quick_flowchart_no_alternative(title, steps, include_decision, decision_step, decision_label) ==
    LET n  == Len(steps)
        at == IF decision_step >= 0 THEN decision_step ELSE n \div 2
        \* after the i first steps: the builder and previous_node
        loop[i \in 0..n] ==
            IF i = 0
            THEN [builder       |-> add_node(FlowchartBuilder(Some(title)), <<"s", "t",
                  "a", "r", "t">>,
                                             <<"S", "t", "a", "r", "t">>, "STADIUM"),
                  previous_node |-> <<"s", "t", "a", "r", "t">>]
            ELSE LET b           == loop[i - 1].builder
                     previous    == loop[i - 1].previous_node
                     node_id     == <<"s", "t", "e", "p", "_">> \o IntToStr(i)
                     decision_id == <<"d", "e", "c", "i", "s", "i", "o", "n", "_">> \o IntToStr(i)
                     alt_node_id == <<"a", "l", "t", "_">> \o IntToStr(i)
                     b1 == add_node(b, decision_id, decision_label, "RHOMBUS")
                     b2 == connect(b1, previous, decision_id, "ARROW", None)
                     b3 == add_node(b2, node_id, steps[i], "RECTANGLE")
                     b4 == connect(b3, decision_id, node_id, "ARROW", Some(<<"Y", "e",
                           "s">>))
                     b5 == add_node(b4, alt_node_id, <<"A", "l", "t", "e", "r", "n",
                           "a", "t", "i", "v", "e", " ", "A", "c", "t", "i", "o", "n">>, "RECTANGLE")
                     b6 == b5
                 IN  IF include_decision /\ i - 1 = at
                     THEN [builder |-> b6, previous_node |-> node_id]
                     ELSE [builder       |-> connect(add_node(b, node_id, steps[i],
                                                              "RECTANGLE"),
                                                     previous, node_id, "ARROW", None),
                           previous_node |-> node_id]
        ended == add_node(loop[n].builder, <<"e", "n", "d">>, <<"E", "n", "d">>, "STADIUM")
    IN  connect(ended, loop[n].previous_node, <<"e", "n", "d">>, "ARROW", None)

\* create_quick_flowchart
create_quick_flowchart(title, steps, include_decision, decision_step, decision_label) ==
    LET n  == Len(steps)
        at == IF decision_step >= 0 THEN decision_step ELSE n \div 2
        \* after the i first steps: the builder and previous_node
        loop[i \in 0..n] ==
            IF i = 0
            THEN [builder       |-> add_node(FlowchartBuilder(Some(title)), <<"s", "t",
                  "a", "r", "t">>,
                                             <<"S", "t", "a", "r", "t">>, "STADIUM"),
                  previous_node |-> <<"s", "t", "a", "r", "t">>]
            ELSE LET b           == loop[i - 1].builder
                     previous    == loop[i - 1].previous_node
                     node_id     == <<"s", "t", "e", "p", "_">> \o IntToStr(i)
                     decision_id == <<"d", "e", "c", "i", "s", "i", "o", "n", "_">> \o IntToStr(i)
                     alt_node_id == <<"a", "l", "t", "_">> \o IntToStr(i)
                     b1 == add_node(b, decision_id, decision_label, "RHOMBUS")
                     b2 == connect(b1, previous, decision_id, "ARROW", None)
                     b3 == add_node(b2, node_id, steps[i], "RECTANGLE")
                     b4 == connect(b3, decision_id, node_id, "ARROW", Some(<<"Y", "e",
                           "s">>))
                     b5 == add_node(b4, alt_node_id, <<"A", "l", "t", "e", "r", "n",
                           "a", "t", "i", "v", "e", " ", "A", "c", "t", "i", "o", "n">>, "RECTANGLE")
                     b6 == connect(b5, decision_id, alt_node_id, "ARROW", Some(<<"N",
                           "o">>))
                 IN  IF include_decision /\ i - 1 = at
                     THEN [builder |-> b6, previous_node |-> node_id]
                     ELSE [builder       |-> connect(add_node(b, node_id, steps[i],
                                                              "RECTANGLE"),
                                                     previous, node_id, "ARROW", None),
                           previous_node |-> node_id]
        ended == add_node(loop[n].builder, <<"e", "n", "d">>, <<"E", "n", "d">>, "STADIUM")
    IN  connect(ended, loop[n].previous_node, <<"e", "n", "d">>, "ARROW", None)

----------------------------------------------------------------------------
(* SpecQuick: create_quick_flowchart on a list of steps, then validate_builder *)

\* the step lists have up to MaxSteps labels
MaxSteps == 3

InitQuick ==
    /\ builder = FlowchartBuilder(None)
    /\ heap = <<>>
    /\ validator = FlowchartValidator
    /\ parsed = None
    /\ node = None
    /\ \E steps \in StringsUpTo({<<"x">>, <<"y", " ", "z">>}, MaxSteps),
          include_decision \in BOOLEAN, decision_step \in -1..MaxSteps :
          arg = [steps            |-> steps,
                 include_decision |-> include_decision,
                 decision_step    |-> decision_step]
    /\ ret = None
    /\ prev = None
    /\ lastOp = "init"
    /\ calls = 0
    /\ generator = None
    /\ disk = NoDisk

\* builder = create_quick_flowchart(title, steps, include_decision, decision_step)
CreateQuickFlowchart ==
    /\ lastOp = "init"
    /\ builder' = create_quick_flowchart(<<"T">>, arg.steps, arg.include_decision,
                                         arg.decision_step, <<"C", "o", "n", "t", "i",
                                               "n", "u", "e", "?">>)
    /\ lastOp' = "create_quick_flowchart"
    /\ UNCHANGED <<heap, validator, parsed, node, arg, ret, prev, calls, generator,
                   disk>>

NextQuick ==
    \/ CreateQuickFlowchart
    \/ ValidateBuilder

SpecQuick == InitQuick /\ [][NextQuick]_vars

\* C21: create_quick_flowchart builds a well-formed chain.  Without a decision
\* the node map has exactly the n + 2 keys start, step_1 .. step_n, end and the
\* n + 1 connections are the path start -> step_1 -> ... -> step_n -> end; with
\* include_decision and a decision index inside 0..n-1 there are n + 4 nodes and
\* n + 3 connections; in every case each connection endpoint is a key of the
\* node map and validate_builder returns True.
C21_QuickChain ==
    /\ lastOp = "create_quick_flowchart" =>
          LET n     == Len(arg.steps)
              at    == IF arg.decision_step >= 0 THEN arg.decision_step ELSE n \div 2
              chain == [i \in 1..(n + 2) |->
                          IF i = 1 THEN <<"s", "t", "a", "r", "t">>
                          ELSE IF i = n + 2 THEN <<"e", "n", "d">>
                          ELSE <<"s", "t", "e", "p", "_">> \o IntToStr(i - 1)]
              keys  == DictKeys(builder.nodes)
              conns == builder.connections
          IN  /\ (~arg.include_decision) =>
                    /\ Len(builder.nodes) = n + 2
                    /\ \A i \in 1..(n + 2) : builder.nodes[i].key = chain[i]
                    /\ \A i \in 2..(n + 1) : builder.nodes[i].value.label = arg.steps[i - 1]
                    /\ Len(conns) = n + 1
                    /\ \A i \in 1..(n + 1) :
                          conns[i] = FlowchartConnection(chain[i], chain[i + 1], "ARROW",
                                                         None)
              /\ (arg.include_decision /\ at \in 0..(n - 1)) =>
                    /\ Len(builder.nodes) = n + 4
                    /\ Len(conns) = n + 3
              /\ \A i \in DOMAIN conns :
                    conns[i].from_node \in keys /\ conns[i].to_node \in keys
              /\ validate_builder(FlowchartValidator, builder).result
    /\ (lastOp = "validate_builder" /\ builder.nodes # <<>>) =>
          ret = TRUE /\ validator.errors = <<>>

\* three steps with the decision before the second: seven nodes, six
\* connections, and validate_builder has returned True
C21_Witness ==
    /\ lastOp = "validate_builder"
    /\ ret = TRUE
    /\ Len(builder.nodes) = 7
    /\ Len(builder.connections) = 6
    /\ DictHas(builder.nodes, <<"d", "e", "c", "i", "s", "i", "o", "n", "_", "2">>)
    /\ DictHas(builder.nodes, <<"a", "l", "t", "_", "2">>)

\* two steps and no decision: start -> step_1 -> step_2 -> end
C21_WitnessChain ==
    /\ lastOp = "create_quick_flowchart"
    /\ ~arg.include_decision
    /\ Len(arg.steps) = 2
    /\ Len(builder.connections) = 3

=============================================================================
